---- MODULE Spec2Model ----
(***************************************************************************)
(* Model of the Ollama metrics proxy: the streaming response wrapper, the  *)
(* request pipeline with its admission semaphore, the analytics writer and *)
(* the service / console lifecycle with the health monitor.                *)
(***************************************************************************)
EXTENDS Integers, Sequences, FiniteSets, Bags, TLC

(***************************************************************************)
(* Bounds of the model.                                                    *)
(***************************************************************************)
\* capacity of Proxy.maxConcurrent in the model (the program uses 50)
SlotCap == 1
\* capacity of AnalyticsWriter.writeQueue in the model (the program uses 1000)
QueueCap == 2
\* number of proxied requests of the pipeline model
NumRequests == 2
\* data chunks ReverseProxy copies per streamed response before the stream ends
MaxCopyReads == 1
\* Record calls made by the producers of the analytics model
MaxRecordCalls == 4
\* backend processes that can be started in one run of the lifecycle model
MaxProcs == 2
\* health ticks in one run of the lifecycle model
MaxTicks == 2
\* requests the HTTP server accepts in one run of the lifecycle model
MaxLifeRequests == 2
\* number of driver operations on a stand-alone streaming body
MaxBodyOps == 4
\* requests given to each of the two runs of the metrics model
MaxTwinRequests == 2
\* eval_count carried by the terminal (done=true) line of a stream
DoneTokens == 10
\* eval_duration of the terminal line, in the model's time unit (see NsPerSecond)
DoneEvalDuration == 10
\* prompt_eval_count carried by the terminal line
DonePromptTokens == 5
\* scaled stand-in for the 1e9 nanoseconds of a second
NsPerSecond == 10
\* capacity of the dynamic category set in the model (the program uses 50)
CatCap == 2
\* goroutines calling Categorize concurrently
NumCallers == 2
\* Categorize calls made in one run of the categorizer model
MaxCatCalls == 4
\* last day of the wall clock in the analytics model
MaxClock == 9
\* cleanupLoop: the retention of AddDate(0, 0, -7), in days
RetentionDays == 7
\* Search: the default LIMIT
SearchLimit == 100
\* scaled stand-in for the 1 MiB cap of streamingResponseBody.accumulated
AccumCap == 4

(***************************************************************************)
(* Program state.                                                          *)
(***************************************************************************)
VARIABLES
    \* streamingResponseBody under a free driver (Read / Close in any order)
    sb,             \* the wrapper's fields
    sbOps,          \* number of driver calls made so far
    sbEofReads,     \* Read calls that returned io.EOF
    sbCloses,       \* Close calls
    \* Proxy.recordMetrics: per request, every invocation in order
    observations,
    \* AnalyticsWriter
    aw,             \* db, writeQueue, shutdown, wg and the two log counters
    writerPc,       \* writerLoop: "none", "recv", "write", "done"
    writerRec,      \* the record writerLoop holds between receive and write
    cleanupPc,      \* cleanupLoop: "none", "select", "sweep", "logged", "done"
    closePc,        \* AnalyticsWriter.Close: "idle", "shutdown", "queue", "wait", "done"
    written,        \* the rows inserted into the interactions table (a bag);
                    \* deleted marks a row removed by the DELETE of cleanupLoop
    lostWrites,     \* records handed to writeSQLite on a closed handle
    recordCalls,    \* Record calls made by the stand-alone producers
    \* Proxy.handleProxy, one goroutine per request
    pc,             \* where each request's handler is
    ctxDone,        \* r.Context().Done() is closed (the client went away)
    sem,            \* len(p.maxConcurrent): slots taken
    activeRequests, \* the p.metrics.activeRequests gauge
    rb,             \* the response body ReverseProxy copies from
    clientStatus,   \* status code written to the client, 0 if none
    acquired,       \* per request: sends on p.maxConcurrent
    released,       \* per request: receives from p.maxConcurrent
    waitCancelled,  \* the client went away while the request waited at a full semaphore
    outcome,        \* how ReverseProxy.ServeHTTP ended for the request
    resp,           \* per request: path and Content-Type of the backend response
    \* lifecycle: ollamaProxyService.Execute / main, and monitorOllamaHealth
    mode,           \* "service" or "console"
    mainPc,         \* where Execute (service) or main (console) is
    stopRequested,  \* a Stop/Shutdown control request or a signal was received
    monPc,          \* monitorOllamaHealth: "none", "select", "probe", ... "done"
    consecutiveFailures,
    ticks,          \* health ticks taken so far
    handle,         \* s.ollamaProcess / ollamaProcess: a process id, 0 for nil
    procs,          \* state of every backend process: "unstarted", "running", "exited"
    started,        \* successful startOllama calls
    shutdownStops,  \* OllamaProcess.Stop calls made by the stop/shutdown path
    httpState,      \* http.Server: "serving", "draining", "closed"
    inflight,       \* requests being handled by the HTTP server
    lifeRequests,   \* requests the HTTP server has accepted so far
    \* the bytes of the stand-alone streaming body
    backendBytes,   \* what the underlying ReadCloser has returned so far
    clientBytes,    \* what streamingResponseBody.Read has returned so far
    lastRead,       \* (n, err) of the last Read: the wrapper's and the underlying body's
    \* wall clock, in days
    clock,
    \* PromptCategorizer and the goroutines calling Categorize
    categories,     \* pc.categories: the dynamic categories
    catPc,          \* per caller: "idle", "rlock", "lock"
    catPrompt,      \* per caller: the prompt of the call under way
    catCount,       \* per caller: the count read under RLock
    catCalls,       \* Categorize calls started so far
    catResults,     \* every (prompt, label) a call has returned
    \* start-up of Execute (service) or main (console)
    startPc,        \* position in the start-up sequence
    startEnv,       \* what the machine is like when start-up runs
    exitCode,       \* -1 while running, otherwise the exit status
    \* the analytics HTTP endpoints
    queryResp,      \* the last request served and its response
    parsed,         \* the request handleProxy has read and parsed, and the result
    twin            \* two runs given the same requests by different clients:
                    \* the metric updates and the analytics rows of each

bodyVars == <<sb, sbOps, sbEofReads, sbCloses, backendBytes, clientBytes, lastRead>>
catVars  == <<categories, catPc, catPrompt, catCount, catCalls, catResults>>
startVars == <<startPc, startEnv, exitCode>>
extVars  == <<clock, catVars, startVars, queryResp, parsed, twin>>
awVars   == <<aw, writerPc, writerRec, cleanupPc, closePc, written, lostWrites>>
vars     == <<sb, sbOps, sbEofReads, sbCloses, backendBytes, clientBytes,
              lastRead, clock, categories, catPc, catPrompt, catCount,
              catCalls, catResults, startPc, startEnv, exitCode, queryResp, parsed, twin,
              observations,
              aw, writerPc, writerRec, cleanupPc, closePc, written, lostWrites,
              recordCalls, pc, ctxDone, sem, activeRequests, rb, clientStatus,
              acquired, released, waitCancelled, outcome, resp,
              mode, mainPc, stopRequested, monPc, consecutiveFailures, ticks,
              handle, procs, started, shutdownStops, httpState, inflight,
              lifeRequests>>
lifeVars == <<mode, mainPc, stopRequested, monPc, consecutiveFailures, ticks,
              handle, procs, started, shutdownStops, httpState, inflight,
              lifeRequests>>
reqVars  == <<pc, ctxDone, sem, activeRequests, rb, clientStatus,
              acquired, released, waitCancelled, outcome, resp>>

(***************************************************************************)
(* Stream content.  A chunk returned by the backend body is a sequence of  *)
(* symbols: "NL" is a newline, every other symbol is the text of a piece   *)
(* of a line.  "tok" is {"response":"Hi","done":false}, "long" is a line   *)
(* of the same form whose response field has 150 characters, "empty" is    *)
(* {"response":"","done":false}, "done" is the terminal line               *)
(* {"response":"","done":true,"eval_count":DoneTokens,"eval_duration":     *)
(* DoneEvalDuration,"prompt_eval_count":DonePromptTokens}, "doneA" and     *)
(* "doneB" are the two halves of that terminal line when the backend body  *)
(* returns it in two reads, and "junk" is text that is not JSON.           *)
(***************************************************************************)
Chunks ==
    { <<"tok", "NL">>, <<"empty", "NL">>, <<"done", "NL">>,
      <<"junk", "tok", "NL">>, <<"tok", "NL", "done", "NL">>,
      <<"doneA">>, <<"doneB", "NL">>, <<"long", "NL">> }

\* what the underlying ReadCloser.Read can return: (n > 0, nil), (0, EOF),
\* (n > 0, EOF) and (0, err)
ReadResults ==
    { [chunk |-> c, err |-> e] : c \in Chunks, e \in {"nil", "EOF"} }
      \cup { [chunk |-> <<>>, err |-> e] : e \in {"EOF", "err"} }

RECURSIVE SplitLines(_, _)
\* strings.Split(chunk, "\n"): cur is the line being collected
SplitLines(chunk, cur) ==
    IF chunk = <<>> THEN <<cur>>
    ELSE IF Head(chunk) = "NL" THEN <<cur>> \o SplitLines(Tail(chunk), <<>>)
    ELSE SplitLines(Tail(chunk), Append(cur, Head(chunk)))

\* json.Unmarshal of one line succeeds exactly on a whole JSON object
ParsesAsJSON(line) ==
    line \in { <<"tok">>, <<"long">>, <<"empty">>, <<"done">>,
               <<"doneA", "doneB">> }

\* the "response" field of a parsed line, in characters
ResponseChars(line) ==
    IF line = <<"tok">> THEN 2 ELSE IF line = <<"long">> THEN 150 ELSE 0

\* the "done" field of a parsed line
IsDone(line) == line \in { <<"done">>, <<"doneA", "doneB">> }

\* truncate(s, maxLen) on a text of the given length
truncate(chars, maxLen) == IF chars <= maxLen THEN chars ELSE maxLen

(***************************************************************************)
(* streamingResponseBody.  firstTokenTime = 0 is the zero time.            *)
(***************************************************************************)
NewStreamingBody ==
    [ accumulated     |-> 0,
      responseText    |-> 0,
      firstTokenTime  |-> 0,
      ttft            |-> 0,
      metricsData     |-> "nil",
      metricsRecorded |-> FALSE,
      underClosed     |-> 0 ]

\* a mutant of the loop body that takes the time of every non-empty response
ProcessLineEveryToken(s, line, now) ==
    IF line = <<>> \/ ~ParsesAsJSON(line) THEN s
    ELSE LET some == ResponseChars(line) # 0
             s1 == [s EXCEPT !.firstTokenTime = IF some THEN now ELSE @,
                             !.ttft = IF some THEN now ELSE @,
                             !.responseText = @ + ResponseChars(line)]
         IN  IF IsDone(line) THEN [s1 EXCEPT !.metricsData = "done"] ELSE s1

\* the body of the "for _, line := range lines" loop of Read
ProcessLine(s, line, now) ==
    IF line = <<>> \/ ~ParsesAsJSON(line) THEN s
    ELSE LET first == s.firstTokenTime = 0 /\ ResponseChars(line) # 0
             s1 == [s EXCEPT !.firstTokenTime = IF first THEN now ELSE @,
                             !.ttft = IF first THEN now ELSE @,
                             !.responseText = @ + ResponseChars(line)]
         IN  IF IsDone(line) THEN [s1 EXCEPT !.metricsData = "done"] ELSE s1

RECURSIVE ProcessLines(_, _, _)
ProcessLines(s, lines, now) ==
    IF lines = <<>> THEN s
    ELSE ProcessLines(ProcessLine(s, Head(lines), now), Tail(lines), now)

\* the observation recordStreamMetrics passes to recordMetrics
StreamObservation(s) ==
    [ statusCode   |-> 200,
      errorMsg     |-> "",
      tokens       |-> IF s.metricsData = "done" THEN DoneTokens ELSE 0,
      tps          |-> IF s.metricsData = "done" /\ DoneEvalDuration > 0
                       THEN (DoneTokens * NsPerSecond) \div DoneEvalDuration
                       ELSE 0,
      promptTokens |-> IF s.metricsData = "done" THEN DonePromptTokens ELSE 0,
      preview      |-> truncate(s.responseText, 200),
      ttft         |-> s.ttft ]

\* a mutant of recordStreamMetrics that forgets the metricsRecorded guard
recordStreamMetricsUnguarded(s) ==
    [ body |-> [s EXCEPT !.metricsRecorded = TRUE],
      calls |-> <<StreamObservation(s)>> ]

\* recordStreamMetrics: the new wrapper state and the recordMetrics calls made
recordStreamMetrics(s) ==
    IF s.metricsRecorded THEN [body |-> s, calls |-> <<>>]
    ELSE [ body |-> [s EXCEPT !.metricsRecorded = TRUE],
           calls |-> <<StreamObservation(s)>> ]

\* a mutant of ReadReturn that hands back only chunks whose lines all parse
ReadReturnFiltered(out, res) ==
    LET lines == SplitLines(res.chunk, <<>>)
        ok == \A i \in 1 .. Len(lines) :
                  lines[i] = <<>> \/ ParsesAsJSON(lines[i])
    IN  [ body |-> out.body, calls |-> out.calls,
          n |-> IF ok THEN Len(res.chunk) ELSE 0,
          data |-> IF ok THEN res.chunk ELSE <<>>, err |-> res.err ]

\* what Read hands back to its caller: n, the bytes in p[:n] and err are
\* those of s.ReadCloser.Read(p); the parsing works on a copy of p[:n]
ReadReturn(out, res) ==
    [ body |-> out.body, calls |-> out.calls,
      n |-> Len(res.chunk), data |-> res.chunk, err |-> res.err ]

\* streamingResponseBody.Read with the underlying Read returning res
StreamRead(s, res, now) ==
    LET n  == Len(res.chunk)
        s1 == IF n > 0
              THEN ProcessLines(
                     [s EXCEPT !.accumulated =
                                  IF @ < AccumCap THEN @ + n ELSE @],
                     SplitLines(res.chunk, <<>>), now)
              ELSE s
    IN  ReadReturn(IF res.err = "EOF" THEN recordStreamMetrics(s1)
                   ELSE [body |-> s1, calls |-> <<>>], res)

\* a mutant of Close that returns without finalizing an unfinished stream
StreamCloseNoFinalize(s) ==
    [ body |-> [s EXCEPT !.underClosed = @ + 1], calls |-> <<>> ]

\* streamingResponseBody.Close
StreamClose(s) ==
    LET r == IF ~s.metricsRecorded THEN recordStreamMetrics(s)
             ELSE [body |-> s, calls |-> <<>>]
    IN  [ body |-> [r.body EXCEPT !.underClosed = @ + 1], calls |-> r.calls ]

(***************************************************************************)
(* PromptCategorizer, the part of Categorize that does not touch the       *)
(* dynamic category set.  A prompt is the empty string, or a text whose    *)
(* strings.Fields are the given words (none for a text of blanks only).    *)
(***************************************************************************)
EmptyPrompt == [empty |-> TRUE, words |-> <<>>]

BlankPrompt == [empty |-> FALSE, words |-> <<>>]

Prompt(words) == [empty |-> FALSE, words |-> words]

\* strings.ToLower on the words of the model's vocabulary
ToLower(w) ==
    CASE w = "Summarize" -> "summarize"
      [] w = "Zeta"      -> "zeta"
      [] OTHER           -> w

\* strings.ToLower(prompt), word by word
LowerWords(ws) == [i \in 1 .. Len(ws) |-> ToLower(ws[i])]

\* the pattern list of NewPromptCategorizer, in its order; "hits" are the
\* lower-case words of the model's vocabulary in which the regular expression
\* finds a match (write.*code needs "write" before "code": no such words here)
patterns ==
    << [category |-> "summarize",  hits |-> {"summarize"}],
       [category |-> "translate",  hits |-> {}],
       [category |-> "explain",    hits |-> {}],
       [category |-> "code_write", hits |-> {}],
       [category |-> "code_debug", hits |-> {}],
       [category |-> "question",   hits |-> {"what"}],
       [category |-> "creative",   hits |-> {}],
       [category |-> "analyze",    hits |-> {}],
       [category |-> "help",       hits |-> {}],
       [category |-> "list",       hits |-> {}] >>

\* p.pattern.MatchString(promptLower)
MatchString(p, lowered) == \E i \in 1 .. Len(lowered) : lowered[i] \in p.hits

\* index of the first pattern that matches, 0 if none does
FirstMatch(lowered) ==
    LET m == { i \in 1 .. Len(patterns) : MatchString(patterns[i], lowered) }
    IN  IF m = {} THEN 0 ELSE CHOOSE i \in m : \A j \in m : i <= j

\* the labels Categorize returns
NoLabel == [kind |-> "none", val |-> <<>>]

EmptyLabel == [kind |-> "empty", val |-> <<>>]

PatternLabel(c) == [kind |-> "pattern", val |-> <<c>>]

DynamicLabel(w) == [kind |-> "dynamic", val |-> <<w>>]

\* fmt.Sprintf("other_%x", md5.Sum(promptLower)[:4]): a function of promptLower
HashLabel(lowered) == [kind |-> "other", val |-> lowered]

\* Categorize up to and including the pattern loop: the label returned
\* there, NoLabel when the call goes on to the dynamic categories
CategorizeFixed(prompt) ==
    IF prompt.empty THEN EmptyLabel
    ELSE LET i == FirstMatch(LowerWords(prompt.words))
         IN  IF i # 0 THEN PatternLabel(patterns[i].category) ELSE NoLabel

\* strings.ToLower(words[0])
firstWord(prompt) == ToLower(prompt.words[1])

\* the request every proxied request of the model carries:
\* {"model":"phi4","prompt":"Summarize this article"}
ReqModel == "phi4"

ReqPrompt == Prompt(<<"Summarize", "this", "article">>)

\* the ProxyContext handleProxy builds: model from parseRequest, category
\* from Categorize
ProxyContext ==
    [ Model          |-> ReqModel,
      PromptCategory |-> CategorizeFixed(ReqPrompt).val[1] ]

(***************************************************************************)
(* AnalyticsWriter.                                                        *)
(***************************************************************************)
NoRecord == [req |-> 0, ts |-> 0, model |-> "", prompt |-> EmptyPrompt,
             category |-> "",
             statusCode |-> 0, status |-> "", errorMsg |-> "",
             tokens |-> 0, tps |-> 0, promptTokens |-> 0,
             preview |-> 0, ttft |-> 0]

\* NewAnalyticsWriter: dbOk tells whether initSQLite succeeded; on failure
\* the constructor returns before starting the two goroutines
NewAnalyticsWriter(dbOk) ==
    [ db             |-> IF dbOk THEN "open" ELSE "nil",
      writeQueue     |-> <<>>,
      queueClosed    |-> FALSE,
      shutdownClosed |-> FALSE,
      wg             |-> IF dbOk THEN 2 ELSE 0,
      accepted       |-> 0,
      dropped        |-> 0,
      panics         |-> 0,
      pendingAtClose |-> 0 ]

\* a mutant of Record that blocks nothing but also drops nothing
RecordUnbounded(a, rec) ==
    IF a.queueClosed THEN [a EXCEPT !.panics = @ + 1]
    ELSE [a EXCEPT !.writeQueue = Append(@, rec), !.accepted = @ + 1]

\* AnalyticsWriter.Record: a non-blocking send; a send on a closed channel
\* panics; "accepted" counts the sends made, "dropped" the "queue full" log
\* lines
Record(a, rec) ==
    IF a.queueClosed THEN [a EXCEPT !.panics = @ + 1]
    ELSE IF Len(a.writeQueue) < QueueCap
         THEN [a EXCEPT !.writeQueue = Append(@, rec), !.accepted = @ + 1]
         ELSE [a EXCEPT !.dropped = @ + 1]

\* writerLoop, "for record := range aw.writeQueue": receive one record
WriterRecv ==
    /\ writerPc = "recv"
    /\ aw.writeQueue # <<>>
    /\ writerRec' = Head(aw.writeQueue)
    /\ aw' = [aw EXCEPT !.writeQueue = Tail(@)]
    /\ writerPc' = "write"
    /\ UNCHANGED <<cleanupPc, closePc, written, lostWrites>>

\* writeSQLite: the row inserted for a record
Row(rec) == [rec |-> rec, deleted |-> FALSE]

\* the rows of the table: what was inserted and not deleted
LiveRows(w) == { x \in BagToSet(w) : ~x.deleted }

\* a mutant of Sweep: the row at the cutoff is deleted as well
SweepAtCutoff(w, now) ==
    LET old  == { x \in LiveRows(w) : x.rec.ts <= now - RetentionDays }
        kept == [x \in BagToSet(w) \ old |-> w[x]]
        gone == [d \in { [x EXCEPT !.deleted = TRUE] : x \in old } |->
                    w[[d EXCEPT !.deleted = FALSE]]]
    IN  kept (+) gone

\* cleanupLoop: DELETE FROM interactions WHERE timestamp < cutoff, with
\* cutoff = time.Now().AddDate(0, 0, -7); time is counted in days
Sweep(w, now) ==
    LET old  == { x \in LiveRows(w) : x.rec.ts < now - RetentionDays }
        kept == [x \in BagToSet(w) \ old |-> w[x]]
        gone == [d \in { [x EXCEPT !.deleted = TRUE] : x \in old } |->
                    w[[d EXCEPT !.deleted = FALSE]]]
    IN  kept (+) gone

\* Search without parameters: SELECT ... ORDER BY timestamp DESC LIMIT 100,
\* the records of the newest SearchLimit rows
Search(w) ==
    { x.rec : x \in { y \in LiveRows(w) :
          BagCardinality([z \in { v \in LiveRows(w) : v.rec.ts > y.rec.ts }
                             |-> w[z]]) < SearchLimit } }

\* writerLoop: the loop body, writeSQLite(record) when the handle is set
WriterWrite ==
    /\ writerPc = "write"
    /\ IF aw.db = "open"
       THEN written' = written (+) SetToBag({Row(writerRec)})
            /\ UNCHANGED lostWrites
       ELSE lostWrites' = lostWrites + 1 /\ UNCHANGED written
    /\ writerRec' = NoRecord
    /\ writerPc' = "recv"
    /\ UNCHANGED <<aw, cleanupPc, closePc>>

\* writerLoop: the range ends on a closed and drained channel; deferred wg.Done
WriterExit ==
    /\ writerPc = "recv"
    /\ aw.writeQueue = <<>>
    /\ aw.queueClosed
    /\ writerPc' = "done"
    /\ aw' = [aw EXCEPT !.wg = @ - 1]
    /\ UNCHANGED <<writerRec, cleanupPc, closePc, written, lostWrites>>

(***************************************************************************)
(* Proxy.recordMetrics.                                                    *)
(***************************************************************************)
\* the status tag computed by recordMetrics
StatusTag(statusCode, errorMsg) ==
    IF statusCode >= 400 THEN "error"
    ELSE IF errorMsg # "" THEN "error" ELSE "success"

\* the AnalyticsRecord built by recordMetrics for request r
MakeRecord(r, o) ==
    [ req          |-> r,
      ts           |-> clock,
      model        |-> ProxyContext.Model,
      prompt       |-> ReqPrompt,
      category     |-> ProxyContext.PromptCategory,
      statusCode   |-> o.statusCode,
      status       |-> StatusTag(o.statusCode, o.errorMsg),
      errorMsg     |-> o.errorMsg,
      tokens       |-> o.tokens,
      tps          |-> o.tps,
      promptTokens |-> o.promptTokens,
      preview      |-> o.preview,
      ttft         |-> o.ttft ]

RECURSIVE RecordAll(_, _, _)
\* p.analytics.Record for each recordMetrics call of a step
RecordAll(a, r, calls) ==
    IF calls = <<>> THEN a
    ELSE RecordAll(Record(a, MakeRecord(r, Head(calls))), r, Tail(calls))

RECURSIVE Records(_, _)
Records(r, calls) ==
    IF calls = <<>> THEN <<>>
    ELSE <<MakeRecord(r, Head(calls))>> \o Records(r, Tail(calls))

\* recordMetrics invoked once per element of calls, for request r
recordMetrics(r, calls) ==
    /\ observations' = [observations EXCEPT ![r] = @ \o Records(r, calls)]
    /\ aw' = RecordAll(aw, r, calls)

(***************************************************************************)
(* A streaming body driven by an arbitrary caller: any sequence of Read    *)
(* and Close calls, the underlying body returning any result.              *)
(***************************************************************************)
BodyRead ==
    \E res \in ReadResults :
        /\ sbOps < MaxBodyOps
        /\ LET out == StreamRead(sb, res, sbOps + 1)
           IN  /\ sb' = out.body
               /\ recordMetrics(0, out.calls)
               /\ clientBytes' = clientBytes \o out.data
               /\ lastRead' = [n |-> out.n, err |-> out.err,
                               underN |-> Len(res.chunk), underErr |-> res.err]
        /\ backendBytes' = backendBytes \o res.chunk
        /\ sbOps' = sbOps + 1
        /\ sbEofReads' = IF res.err = "EOF" THEN sbEofReads + 1 ELSE sbEofReads
        /\ UNCHANGED <<sbCloses, writerPc, writerRec, cleanupPc, closePc,
                       written, lostWrites, recordCalls, reqVars, lifeVars, extVars>>

BodyClose ==
    /\ sbOps < MaxBodyOps
    /\ LET out == StreamClose(sb)
       IN  /\ sb' = out.body
           /\ recordMetrics(0, out.calls)
    /\ sbOps' = sbOps + 1
    /\ sbCloses' = sbCloses + 1
    /\ UNCHANGED <<sbEofReads, backendBytes, clientBytes, lastRead, writerPc, writerRec, cleanupPc, closePc,
                   written, lostWrites, recordCalls, reqVars, lifeVars, extVars>>

BodyWriterRecv ==
    WriterRecv /\ UNCHANGED <<bodyVars, observations, recordCalls, reqVars, lifeVars, extVars>>

BodyWriterWrite ==
    WriterWrite /\ UNCHANGED <<bodyVars, observations, recordCalls, reqVars, lifeVars, extVars>>

\* request 0 owns the stand-alone body, 1..NumRequests go through handleProxy
Requests == 1 .. NumRequests
ReqIds == 0 .. NumRequests

NoBody == [kind |-> "none"]

\* no response has arrived from the backend
NoBackendResponse == [path |-> <<>>, ctype |-> ""]

InitRequests ==
    /\ pc = [r \in Requests |-> "check"]
    /\ ctxDone = [r \in Requests |-> FALSE]
    /\ sem = 0
    /\ activeRequests = 0
    /\ rb = [r \in Requests |-> NoBody]
    /\ clientStatus = [r \in Requests |-> 0]
    /\ acquired = [r \in Requests |-> 0]
    /\ released = [r \in Requests |-> 0]
    /\ waitCancelled = [r \in Requests |-> FALSE]
    /\ outcome = [r \in Requests |-> "none"]
    /\ resp = [r \in Requests |-> NoBackendResponse]

\* the lifecycle as the other models see it: the proxy is up and serving
InitLifeIdle ==
    /\ mode = "console"
    /\ mainPc = "waitSignal"
    /\ stopRequested = FALSE
    /\ monPc = "none"
    /\ consecutiveFailures = 0
    /\ ticks = 0
    /\ handle = 1
    /\ procs = [p \in 1 .. MaxProcs |-> IF p = 1 THEN "running" ELSE "unstarted"]
    /\ started = 1
    /\ shutdownStops = 0
    /\ httpState = "serving"
    /\ inflight = 0
    /\ lifeRequests = 0

\* no analytics request has been served yet
NoResponse == [endpoint |-> "none"]

\* handleProxy has not run
NoParse == [method |-> "none"]

\* two runs in which recordMetrics has not been called
NoTwin == [a |-> [series |-> <<>>, rows |-> <<>>],
           b |-> [series |-> <<>>, rows |-> <<>>]]

\* everything outside the streaming body, the pipeline, the analytics writer
\* and the lifecycle, at rest: a fresh categorizer, start-up completed
InitExtIdle ==
    /\ clock = 0
    /\ categories = {}
    /\ catPc = [c \in 1 .. NumCallers |-> "idle"]
    /\ catPrompt = [c \in 1 .. NumCallers |-> EmptyPrompt]
    /\ catCount = [c \in 1 .. NumCallers |-> 0]
    /\ catCalls = 0
    /\ catResults = {}
    /\ startPc = "running"
    /\ startEnv = [foreign |-> FALSE, inUseAtStart |-> FALSE,
                   probe |-> "passed"]
    /\ exitCode = -1
    /\ queryResp = NoResponse
    /\ parsed = NoParse
    /\ twin = NoTwin

\* a fresh stand-alone streaming body
InitStream ==
    /\ sb = NewStreamingBody
    /\ sbOps = 0
    /\ sbEofReads = 0
    /\ sbCloses = 0
    /\ backendBytes = <<>>
    /\ clientBytes = <<>>
    /\ lastRead = [n |-> 0, err |-> "nil", underN |-> 0, underErr |-> "nil"]

InitBody ==
    /\ InitStream
    /\ InitExtIdle
    /\ observations = [r \in ReqIds |-> <<>>]
    /\ aw = NewAnalyticsWriter(TRUE)
    /\ writerPc = "recv"
    /\ writerRec = NoRecord
    /\ cleanupPc = "select"
    /\ closePc = "idle"
    /\ written = EmptyBag
    /\ lostWrites = 0
    /\ recordCalls = 0
    /\ InitRequests
    /\ InitLifeIdle

NextBody == BodyRead \/ BodyClose \/ BodyWriterRecv \/ BodyWriterWrite

SpecBody == InitBody /\ [][NextBody]_vars

(***************************************************************************)
(* Proxy.handleProxy and the ReverseProxy it drives.  ReverseProxy.ServeHTTP*)
(* (net/http/httputil) calls the hooks the proxy installs: ErrorHandler    *)
(* when RoundTrip fails; otherwise ModifyResponse, after which it copies   *)
(* the body to the client and closes it, or, on a copy error, closes it in *)
(* a deferred call and panics with http.ErrAbortHandler.  A 101 Switching  *)
(* Protocols response goes through ModifyResponse and then through the     *)
(* upgrade handling, which calls ErrorHandler when the body it is given is *)
(* not writable (any body ModifyResponse has replaced).                    *)
(***************************************************************************)
\* status codes of ordinary backend responses
BackendStatuses == {200, 500}

\* chunks a streamed backend response delivers in the pipeline model
ProxyChunks == { <<"tok", "NL", "done", "NL">> }

StreamBody(s, n) == [kind |-> "stream", s |-> s, reads |-> n]

\* backend responses: the path of the request they answer, as its segments,
\* and their Content-Type header
BackendResponses ==
    [ path  : { <<"api", "generate">>, <<"api", "chat">>, <<"api", "tags">> },
      ctype : { "application/x-ndjson", "application/json" } ]

\* modifyResponse: the test that selects the streaming wrapper
IsStreamingResponse(rs) ==
    \/ rs.ctype = "application/x-ndjson"
    \/ \E k \in 1 .. Len(rs.path) : rs.path[k] = "generate"
    \/ \E k \in 1 .. Len(rs.path) : rs.path[k] = "chat"

\* a mutant of ErrorObservation: the failure is reported as a success
ErrorObservationSilent ==
    [statusCode |-> 200, errorMsg |-> "", tokens |-> 0,
     tps |-> 0, promptTokens |-> 0, preview |-> 0, ttft |-> 0]

\* the observation errorHandler passes to recordMetrics
ErrorObservation ==
    [statusCode |-> 500, errorMsg |-> "transport error", tokens |-> 0,
     tps |-> 0, promptTokens |-> 0, preview |-> 0, ttft |-> 0]

\* the observation processNonStreamingResponse passes to recordMetrics
BufferedObservation(statusCode) ==
    [statusCode |-> statusCode, errorMsg |-> "", tokens |-> 0,
     tps |-> 0, promptTokens |-> 0, preview |-> 0, ttft |-> 0]

reqOther == <<bodyVars, writerPc, writerRec, cleanupPc, closePc, written,
              lostWrites, recordCalls, lifeVars, extVars>>

\* the client disconnects: the request context is cancelled
Cancel(r) ==
    /\ pc[r] # "done"
    /\ ~ctxDone[r]
    /\ ctxDone' = [ctxDone EXCEPT ![r] = TRUE]
    /\ waitCancelled' = [waitCancelled EXCEPT
                            ![r] = @ \/ (pc[r] = "wait" /\ sem = SlotCap)]
    /\ UNCHANGED <<pc, sem, activeRequests, rb, clientStatus, acquired,
                   released, outcome, observations, aw, resp, reqOther>>

\* handleProxy, first select: return at once if the client is already gone
CheckDisconnected(r) ==
    /\ pc[r] = "check"
    /\ pc' = [pc EXCEPT ![r] = IF ctxDone[r] THEN "done" ELSE "wait"]
    /\ outcome' = [outcome EXCEPT ![r] = IF ctxDone[r] THEN "early" ELSE @]
    /\ UNCHANGED <<ctxDone, sem, activeRequests, rb, clientStatus, acquired,
                   released, waitCancelled, observations, aw, resp, reqOther>>

\* a mutant of Acquire that sends without regard to the channel's capacity
AcquireUnbounded(r) ==
    /\ pc[r] = "wait"
    /\ sem' = sem + 1
    /\ acquired' = [acquired EXCEPT ![r] = @ + 1]
    /\ pc' = [pc EXCEPT ![r] = "admitted"]
    /\ UNCHANGED <<ctxDone, activeRequests, rb, clientStatus, released,
                   waitCancelled, outcome, observations, aw, resp, reqOther>>

\* handleProxy, second select, case p.maxConcurrent <- struct{}{}: the send
\* can proceed when the channel is not full; select takes any ready case
Acquire(r) ==
    /\ pc[r] = "wait"
    /\ sem < SlotCap
    /\ sem' = sem + 1
    /\ acquired' = [acquired EXCEPT ![r] = @ + 1]
    /\ pc' = [pc EXCEPT ![r] = "admitted"]
    /\ UNCHANGED <<ctxDone, activeRequests, rb, clientStatus, released,
                   waitCancelled, outcome, observations, aw, resp, reqOther>>

\* handleProxy, second select, case <-r.Context().Done(): 408 and return
CancelledWaiting(r) ==
    /\ pc[r] = "wait"
    /\ ctxDone[r]
    /\ clientStatus' = [clientStatus EXCEPT ![r] = 408]
    /\ outcome' = [outcome EXCEPT ![r] = "cancelled"]
    /\ pc' = [pc EXCEPT ![r] = "done"]
    /\ UNCHANGED <<ctxDone, sem, activeRequests, rb, acquired, released,
                   waitCancelled, observations, aw, resp, reqOther>>

\* handleProxy from the slot to the forward: body buffered, request parsed
\* and categorised, activeRequests.Inc()
Prepare(r) ==
    /\ pc[r] = "admitted"
    /\ activeRequests' = activeRequests + 1
    /\ pc' = [pc EXCEPT ![r] = "forward"]
    /\ UNCHANGED <<ctxDone, sem, rb, clientStatus, acquired, released,
                   waitCancelled, outcome, observations, aw, resp, reqOther>>

\* ServeHTTP: RoundTrip fails, errorHandler records and answers 502
ForwardTransportError(r) ==
    /\ pc[r] = "forward"
    /\ recordMetrics(r, <<ErrorObservation>>)
    /\ clientStatus' = [clientStatus EXCEPT ![r] = 502]
    /\ outcome' = [outcome EXCEPT ![r] = "transportError"]
    /\ pc' = [pc EXCEPT ![r] = "return"]
    /\ UNCHANGED <<ctxDone, sem, activeRequests, rb, acquired, released,
                   waitCancelled, resp, reqOther>>

\* ServeHTTP: a response arrives, modifyResponse wraps its body for streaming
ForwardStreaming(r) ==
    \E st \in BackendStatuses :
        /\ pc[r] = "forward"
        /\ ~ctxDone[r]
        /\ rb' = [rb EXCEPT ![r] = StreamBody(NewStreamingBody, 0)]
        /\ clientStatus' = [clientStatus EXCEPT ![r] = st]
        /\ pc' = [pc EXCEPT ![r] = "copy"]
        /\ \E rs \in BackendResponses :
              /\ IsStreamingResponse(rs)
              /\ resp' = [resp EXCEPT ![r] = rs]
        /\ UNCHANGED <<ctxDone, sem, activeRequests, acquired, released,
                       waitCancelled, outcome, observations, aw, reqOther>>

\* ServeHTTP: a response arrives, modifyResponse reads the whole body and
\* processNonStreamingResponse records it
ForwardBuffered(r) ==
    \E st \in BackendStatuses :
        /\ pc[r] = "forward"
        /\ ~ctxDone[r]
        /\ recordMetrics(r, <<BufferedObservation(st)>>)
        /\ rb' = [rb EXCEPT ![r] = [kind |-> "buffer"]]
        /\ clientStatus' = [clientStatus EXCEPT ![r] = st]
        /\ pc' = [pc EXCEPT ![r] = "copy"]
        /\ \E rs \in BackendResponses :
              /\ ~IsStreamingResponse(rs)
              /\ resp' = [resp EXCEPT ![r] = rs]
        /\ UNCHANGED <<ctxDone, sem, activeRequests, acquired, released,
                       waitCancelled, outcome, reqOther>>

\* ServeHTTP: a response arrives, io.ReadAll in modifyResponse fails (the
\* backend dies mid-body): nothing is recorded, the body is left as it is
ForwardBufferedReadFails(r) ==
    \E st \in BackendStatuses :
        /\ pc[r] = "forward"
        /\ ~ctxDone[r]
        /\ rb' = [rb EXCEPT ![r] = [kind |-> "broken"]]
        /\ clientStatus' = [clientStatus EXCEPT ![r] = st]
        /\ pc' = [pc EXCEPT ![r] = "copy"]
        /\ \E rs \in BackendResponses :
              /\ ~IsStreamingResponse(rs)
              /\ resp' = [resp EXCEPT ![r] = rs]
        /\ UNCHANGED <<ctxDone, sem, activeRequests, acquired, released,
                       waitCancelled, outcome, observations, aw, reqOther>>

\* ServeHTTP: the backend answers 101 on a streaming path; modifyResponse
\* wraps the body, the upgrade handling rejects the wrapped body and calls
\* errorHandler; the wrapper is never read or closed
ForwardUpgradeStreaming(r) ==
    /\ pc[r] = "forward"
    /\ ~ctxDone[r]
    /\ rb' = [rb EXCEPT ![r] = StreamBody(NewStreamingBody, 0)]
    /\ recordMetrics(r, <<ErrorObservation>>)
    /\ clientStatus' = [clientStatus EXCEPT ![r] = 502]
    /\ outcome' = [outcome EXCEPT ![r] = "upgradeRefused"]
    /\ pc' = [pc EXCEPT ![r] = "return"]
    /\ \E rs \in BackendResponses :
          /\ IsStreamingResponse(rs)
          /\ resp' = [resp EXCEPT ![r] = rs]
    /\ UNCHANGED <<ctxDone, sem, activeRequests, acquired, released,
                   waitCancelled, reqOther>>

\* ServeHTTP: the backend answers 101 on a buffered path; modifyResponse
\* reads the (empty) body and records, the upgrade handling rejects the
\* replaced body and calls errorHandler, which records again
ForwardUpgradeBuffered(r) ==
    /\ pc[r] = "forward"
    /\ ~ctxDone[r]
    /\ recordMetrics(r, <<BufferedObservation(101), ErrorObservation>>)
    /\ rb' = [rb EXCEPT ![r] = [kind |-> "buffer"]]
    /\ clientStatus' = [clientStatus EXCEPT ![r] = 502]
    /\ outcome' = [outcome EXCEPT ![r] = "upgradeRefused"]
    /\ pc' = [pc EXCEPT ![r] = "return"]
    /\ \E rs \in BackendResponses :
          /\ ~IsStreamingResponse(rs)
          /\ resp' = [resp EXCEPT ![r] = rs]
    /\ UNCHANGED <<ctxDone, sem, activeRequests, acquired, released,
                   waitCancelled, reqOther>>

\* copyResponse: one chunk is read through the wrapper and written to the client
CopyData(r) ==
    \E c \in ProxyChunks :
        /\ pc[r] = "copy"
        /\ rb[r].kind = "stream"
        /\ rb[r].reads < MaxCopyReads
        /\ LET out == StreamRead(rb[r].s, [chunk |-> c, err |-> "nil"],
                                 rb[r].reads + 1)
           IN  /\ rb' = [rb EXCEPT ![r] = StreamBody(out.body, rb[r].reads + 1)]
               /\ recordMetrics(r, out.calls)
        /\ UNCHANGED <<pc, ctxDone, sem, activeRequests, clientStatus, acquired,
                       released, waitCancelled, outcome, resp, reqOther>>

\* copyResponse: the wrapper's Read returns io.EOF, the copy ends normally
CopyEOF(r) ==
    /\ pc[r] = "copy"
    /\ rb[r].kind = "stream"
    /\ LET out == StreamRead(rb[r].s, [chunk |-> <<>>, err |-> "EOF"],
                             rb[r].reads + 1)
       IN  /\ rb' = [rb EXCEPT ![r] = StreamBody(out.body, rb[r].reads)]
           /\ recordMetrics(r, out.calls)
    /\ outcome' = [outcome EXCEPT ![r] = "normal"]
    /\ pc' = [pc EXCEPT ![r] = "close"]
    /\ UNCHANGED <<ctxDone, sem, activeRequests, clientStatus, acquired,
                   released, waitCancelled, resp, reqOther>>

\* copyResponse: the buffered body is replayed to the client to its end
CopyBuffered(r) ==
    /\ pc[r] = "copy"
    /\ rb[r].kind = "buffer"
    /\ outcome' = [outcome EXCEPT ![r] = "normal"]
    /\ pc' = [pc EXCEPT ![r] = "close"]
    /\ UNCHANGED <<ctxDone, sem, activeRequests, rb, clientStatus, acquired,
                   released, waitCancelled, observations, aw, resp, reqOther>>

\* copyResponse: reading the backend body fails (backend crash mid-stream)
CopyReadError(r) ==
    /\ pc[r] = "copy"
    /\ rb[r].kind \in {"stream", "broken"}
    /\ IF rb[r].kind = "stream"
       THEN LET out == StreamRead(rb[r].s, [chunk |-> <<>>, err |-> "err"],
                                  rb[r].reads + 1)
            IN  /\ rb' = [rb EXCEPT ![r] = StreamBody(out.body, rb[r].reads)]
                /\ recordMetrics(r, out.calls)
       ELSE UNCHANGED <<rb, observations, aw>>
    /\ pc' = [pc EXCEPT ![r] = "abort"]
    /\ UNCHANGED <<ctxDone, sem, activeRequests, clientStatus, acquired,
                   released, waitCancelled, outcome, resp, reqOther>>

\* copyResponse: writing to a client that went away fails
CopyWriteError(r) ==
    /\ pc[r] = "copy"
    /\ ctxDone[r]
    /\ rb[r].kind \in {"stream", "buffer"}
    /\ IF rb[r].kind = "stream"
       THEN \E c \in ProxyChunks :
              LET out == StreamRead(rb[r].s, [chunk |-> c, err |-> "nil"],
                                    rb[r].reads + 1)
              IN  /\ rb' = [rb EXCEPT ![r] = StreamBody(out.body, rb[r].reads)]
                  /\ recordMetrics(r, out.calls)
       ELSE UNCHANGED <<rb, observations, aw>>
    /\ pc' = [pc EXCEPT ![r] = "abort"]
    /\ UNCHANGED <<ctxDone, sem, activeRequests, clientStatus, acquired,
                   released, waitCancelled, outcome, resp, reqOther>>

\* ServeHTTP after a complete copy: res.Body.Close()
CloseBody(r) ==
    /\ pc[r] = "close"
    /\ IF rb[r].kind = "stream"
       THEN LET out == StreamClose(rb[r].s)
            IN  /\ rb' = [rb EXCEPT ![r] = StreamBody(out.body, rb[r].reads)]
                /\ recordMetrics(r, out.calls)
       ELSE UNCHANGED <<rb, observations, aw>>
    /\ pc' = [pc EXCEPT ![r] = "return"]
    /\ UNCHANGED <<ctxDone, sem, activeRequests, clientStatus, acquired,
                   released, waitCancelled, outcome, resp, reqOther>>

\* a mutant of Abort in which the panic skips handleProxy's deferred calls
AbortNoDefer(r) ==
    /\ pc[r] = "abort"
    /\ IF rb[r].kind = "stream"
       THEN LET out == StreamClose(rb[r].s)
            IN  /\ rb' = [rb EXCEPT ![r] = StreamBody(out.body, rb[r].reads)]
                /\ recordMetrics(r, out.calls)
       ELSE UNCHANGED <<rb, observations, aw>>
    /\ outcome' = [outcome EXCEPT ![r] = "abort"]
    /\ pc' = [pc EXCEPT ![r] = "done"]
    /\ UNCHANGED <<ctxDone, sem, activeRequests, clientStatus, acquired,
                   released, waitCancelled, resp, reqOther>>

\* ServeHTTP after a failed copy: the deferred res.Body.Close() runs and the
\* handler panics with http.ErrAbortHandler; handleProxy's deferred calls run
\* while the panic unwinds
Abort(r) ==
    /\ pc[r] = "abort"
    /\ IF rb[r].kind = "stream"
       THEN LET out == StreamClose(rb[r].s)
            IN  /\ rb' = [rb EXCEPT ![r] = StreamBody(out.body, rb[r].reads)]
                /\ recordMetrics(r, out.calls)
       ELSE UNCHANGED <<rb, observations, aw>>
    /\ outcome' = [outcome EXCEPT ![r] = "abort"]
    /\ pc' = [pc EXCEPT ![r] = "defer1"]
    /\ UNCHANGED <<ctxDone, sem, activeRequests, clientStatus, acquired,
                   released, waitCancelled, resp, reqOther>>

\* handleProxy after ServeHTTP returned: the final flush
FinalFlush(r) ==
    /\ pc[r] = "return"
    /\ pc' = [pc EXCEPT ![r] = "defer1"]
    /\ UNCHANGED <<ctxDone, sem, activeRequests, rb, clientStatus, acquired,
                   released, waitCancelled, outcome, observations, aw, resp, reqOther>>

\* a mutant of the deferred Dec that leaves the gauge as it is
DeferDecSkipped(r) ==
    /\ pc[r] = "defer1"
    /\ pc' = [pc EXCEPT ![r] = "defer2"]
    /\ UNCHANGED <<ctxDone, sem, activeRequests, rb, clientStatus, acquired,
                   released, waitCancelled, outcome, observations, aw, resp, reqOther>>

\* deferred p.metrics.activeRequests.Dec()
DeferDec(r) ==
    /\ pc[r] = "defer1"
    /\ activeRequests' = activeRequests - 1
    /\ pc' = [pc EXCEPT ![r] = "defer2"]
    /\ UNCHANGED <<ctxDone, sem, rb, clientStatus, acquired, released,
                   waitCancelled, outcome, observations, aw, resp, reqOther>>

\* deferred func() { <-p.maxConcurrent }()
DeferRelease(r) ==
    /\ pc[r] = "defer2"
    /\ sem' = sem - 1
    /\ released' = [released EXCEPT ![r] = @ + 1]
    /\ pc' = [pc EXCEPT ![r] = "done"]
    /\ UNCHANGED <<ctxDone, activeRequests, rb, clientStatus, acquired,
                   waitCancelled, outcome, observations, aw, resp, reqOther>>

ProxyWriterRecv ==
    WriterRecv /\ UNCHANGED <<bodyVars, observations, recordCalls, reqVars, lifeVars, extVars>>

ProxyWriterWrite ==
    WriterWrite /\ UNCHANGED <<bodyVars, observations, recordCalls, reqVars, lifeVars, extVars>>

InitProxy == InitBody

NextProxy ==
    \/ \E r \in Requests : Cancel(r)
    \/ \E r \in Requests : CheckDisconnected(r)
    \/ \E r \in Requests : Acquire(r)
    \/ \E r \in Requests : CancelledWaiting(r)
    \/ \E r \in Requests : Prepare(r)
    \/ \E r \in Requests : ForwardTransportError(r)
    \/ \E r \in Requests : ForwardStreaming(r)
    \/ \E r \in Requests : ForwardBuffered(r)
    \/ \E r \in Requests : ForwardBufferedReadFails(r)
    \/ \E r \in Requests : ForwardUpgradeStreaming(r)
    \/ \E r \in Requests : ForwardUpgradeBuffered(r)
    \/ \E r \in Requests : CopyData(r)
    \/ \E r \in Requests : CopyEOF(r)
    \/ \E r \in Requests : CopyBuffered(r)
    \/ \E r \in Requests : CopyReadError(r)
    \/ \E r \in Requests : CopyWriteError(r)
    \/ \E r \in Requests : CloseBody(r)
    \/ \E r \in Requests : Abort(r)
    \/ \E r \in Requests : FinalFlush(r)
    \/ \E r \in Requests : DeferDec(r)
    \/ \E r \in Requests : DeferRelease(r)
    \/ ProxyWriterRecv
    \/ ProxyWriterWrite

SpecProxy == InitProxy /\ [][NextProxy]_vars

\* C1: for one streaming body wrapper, once the stream has reached EOF or
\* Close has been called, recordMetrics has been invoked exactly once, however
\* many further Read and Close calls follow; before either it was never invoked.
C1_RecordedExactlyOnce ==
    /\ (sbEofReads + sbCloses > 0) => Len(observations[0]) = 1
    /\ (sbEofReads + sbCloses = 0) => Len(observations[0]) = 0
    /\ sb.metricsRecorded <=> (sbEofReads + sbCloses > 0)

\* C1 witness: EOF was read twice and Close was called twice on one wrapper
C1_Witness ==
    /\ sbEofReads >= 2
    /\ sbCloses >= 2
    /\ Len(observations[0]) = 1

\* C12: every Read of the wrapper returns the byte count and the error of the
\* underlying body's Read, and the bytes handed to the caller so far are the
\* bytes the backend body has returned so far, in the same order, whether or
\* not their lines parse as JSON.
C12_PassThrough ==
    /\ lastRead.n = lastRead.underN
    /\ lastRead.err = lastRead.underErr
    /\ clientBytes = backendBytes

\* C12 witness: a line that is not JSON and half of a terminal line have gone
\* through, and the last Read returned data together with io.EOF
C12_Witness ==
    /\ \E i \in 1 .. Len(clientBytes) : clientBytes[i] = "junk"
    /\ \E i \in 1 .. Len(clientBytes) : clientBytes[i] = "doneA"
    /\ lastRead.n > 0
    /\ lastRead.err = "EOF"

\* the stream sent by the backend so far has a line whose done flag is true
HasDoneLine(bytes) ==
    LET lines == SplitLines(bytes, <<>>)
    IN  \E i \in 1 .. Len(lines) : IsDone(lines[i])

\* C19: when the record of a streamed response is made and the backend has
\* sent a line whose done flag is true, the record has the terminal line's
\* eval_count as output tokens, eval_count / (eval_duration / 10^9) as tokens
\* per second and prompt_eval_count as input tokens, the model and the
\* category of the request, and the client has received every byte.
C19_CountersFromDoneLine ==
    [][ (Len(observations[0]) = 0 /\ Len(observations'[0]) = 1
           /\ HasDoneLine(backendBytes'))
        => /\ observations'[0][1].tokens = DoneTokens
           /\ observations'[0][1].tps * DoneEvalDuration
                 = DoneTokens * NsPerSecond
           /\ observations'[0][1].promptTokens = DonePromptTokens
           /\ observations'[0][1].model = "phi4"
           /\ observations'[0][1].category = "summarize"
           /\ clientBytes' = backendBytes'
      ]_vars

\* C27: however a backend stream of whole JSON lines was cut into reads, the
\* retained terminal line and the accumulated response text are those of the
\* same stream read in one chunk, and so are the counters of the record when
\* it is made.
C27_ChunkingIndependent ==
    /\ [](LET lines == SplitLines(backendBytes, <<>>)
              whole == ProcessLines(NewStreamingBody, lines, 0)
          IN  (\A k \in 1..Len(lines) :
                    lines[k] = <<>> \/ ParsesAsJSON(lines[k])) =>
                  /\ sb.metricsData = whole.metricsData
                  /\ sb.responseText = whole.responseText)
    /\ [][ LET lines == SplitLines(backendBytes', <<>>)
               o == StreamObservation(ProcessLines(NewStreamingBody, lines, 0))
           IN  ( /\ Len(observations[0]) = 0
                 /\ Len(observations'[0]) = 1
                 /\ \A k \in 1..Len(lines) :
                        lines[k] = <<>> \/ ParsesAsJSON(lines[k]) ) =>
                   /\ observations'[0][1].tokens = o.tokens
                   /\ observations'[0][1].tps = o.tps
                   /\ observations'[0][1].promptTokens = o.promptTokens
                   /\ observations'[0][1].preview = o.preview
         ]_vars

\* C28: after any Read the accumulation buffer holds at most the cap.
C28_AccumulatedWithinCap ==
    sb.accumulated <= AccumCap

\* C29: a request whose backend response had status code s, on the streaming
\* or on the buffered path, is recorded with status code s, and the status tag
\* of the record is error exactly when s >= 400 or an error message is present.
C29_RecordedStatusIsBackendStatus ==
    \A r \in Requests :
        ( /\ rb[r].kind \in {"stream", "buffer"}
          /\ outcome[r] # "upgradeRefused"
          /\ clientStatus[r] \in BackendStatuses ) =>
            \A k \in 1..Len(observations[r]) :
                /\ observations[r][k].statusCode = clientStatus[r]
                /\ observations[r][k].status = "error" <=>
                       ( \/ clientStatus[r] >= 400
                         \/ observations[r][k].errorMsg # "" )

C31_TTFTSetOnce ==
    /\ []((sb.ttft = 0) <=> (sb.responseText = 0))
    /\ [][ /\ sb.ttft # 0 => sb'.ttft = sb.ttft
           /\ (sb.ttft = 0 /\ sb'.ttft # 0) =>
                 (sb'.ttft = sbOps' /\ sb.responseText = 0)
       ]_vars

\* C31 witness: a line with an empty response field came first, the second
\* Read parsed the first token and a third Read parsed another one.
C31_Witness ==
    /\ sbOps = 3
    /\ Len(backendBytes) >= 6
    /\ backendBytes[1] = "empty"
    /\ backendBytes[3] = "tok"
    /\ backendBytes[5] = "tok"
    /\ sb.ttft = 2
    /\ sb.responseText = 4

\* C2: no request makes recordMetrics run more than once, whatever way
\* ServeHTTP ends for it.
C2_AtMostOneRecord ==
    \A r \in Requests : Len(observations[r]) <= 1

\* C3: every request that acquired a slot and was forwarded has caused a
\* recordMetrics call by the time its handler has returned, on every outcome.
C3_ForwardedIsRecorded ==
    \A r \in Requests :
        (pc[r] = "done" /\ acquired[r] > 0) => Len(observations[r]) >= 1

HoldsSlot(r) == acquired[r] > released[r]

SlotHolders == { r \in Requests : HoldsSlot(r) }

\* C6: at most SlotCap requests hold a slot at any moment, every request that
\* is being forwarded holds one, and while SlotCap requests hold slots a
\* further request at the select cannot take one.
C6_AtMostCapacityHoldSlots ==
    /\ Cardinality(SlotHolders) <= SlotCap
    /\ sem = Cardinality(SlotHolders)
    /\ \A r \in Requests :
          pc[r] \in {"admitted", "forward", "copy", "close", "abort", "return"}
             => HoldsSlot(r)
    /\ \A r \in Requests :
          (pc[r] = "wait" /\ Cardinality(SlotHolders) = SlotCap)
             => ~ENABLED Acquire(r)

\* C6 witness: SlotCap requests hold slots, one of them is being forwarded,
\* and one more request, whose client is still there, waits at the select
C6_Witness ==
    /\ Cardinality(SlotHolders) = SlotCap
    /\ \E r \in Requests : pc[r] = "forward"
    /\ \E r \in Requests : pc[r] = "wait" /\ ~ctxDone[r]

\* C36 as stated: the active-requests gauge equals the number of requests
\* between slot acquisition and handler exit.
C36_AsStated ==
    activeRequests = Cardinality(SlotHolders)

\* C36: the gauge equals the number of requests between activeRequests.Inc()
\* and the deferred Dec(); it is never negative, never exceeds the number of
\* slots held (hence never the capacity), and is 0 when no request is in
\* flight.
C36_GaugeWithinSlotsHeld ==
    /\ activeRequests =
          Cardinality({ r \in Requests :
              pc[r] \in {"forward", "copy", "close", "abort", "return",
                         "defer1"} })
    /\ activeRequests >= 0
    /\ activeRequests <= Cardinality(SlotHolders)
    /\ activeRequests <= SlotCap
    /\ (\A r \in Requests : pc[r] \in {"check", "wait", "done"})
          => activeRequests = 0

\* C36 witness: one request has run its deferred calls and returned, another
\* is being forwarded and is counted.
C36_Witness ==
    /\ activeRequests = 1
    /\ \E r \in Requests : pc[r] = "done" /\ released[r] = 1
    /\ \E r \in Requests : pc[r] = "copy"

\* C38: a backend response is given the streaming wrapper exactly when its
\* Content-Type is NDJSON or its path is that of a generate or chat endpoint;
\* every other response is buffered whole and observed exactly once.
C38_WrappedExactlyWhenStreaming ==
    \A r \in Requests :
        resp[r] # NoBackendResponse =>
            LET streaming ==
                    \/ resp[r].ctype = "application/x-ndjson"
                    \/ resp[r].path \in { <<"api", "generate">>,
                                          <<"api", "chat">> }
            IN  /\ rb[r].kind = "stream" <=> streaming
                /\ ~streaming =>
                       /\ rb[r].kind = "buffer"
                       /\ Len(observations[r]) = 1

\* C7: a request whose client went away while it waited at a full semaphore
\* never acquires a slot, produces no record and is answered 408.
C7_CancelledWaiterNeverAdmitted ==
    \A r \in Requests :
        waitCancelled[r] =>
            /\ acquired[r] = 0
            /\ observations[r] = <<>>
            /\ (pc[r] = "done" => clientStatus[r] = 408)

\* C8: a slot is released exactly once by every request that acquired one, on
\* every exit path, never by a request that acquired none, and the semaphore
\* is empty whenever no request is between acquisition and handler exit.
C8_SlotReleasedExactlyOnce ==
    /\ \A r \in Requests :
          /\ released[r] <= acquired[r]
          /\ acquired[r] <= 1
          /\ (pc[r] = "done" => released[r] = acquired[r])
          /\ (outcome[r] \in {"early", "cancelled"} => acquired[r] = 0)
    /\ ((\A r \in Requests : pc[r] \in {"check", "wait", "done"}) => sem = 0)

\* C8 witness: two requests have returned, one through the abort panic and
\* one after a transport error, and every slot is free again
C8_Witness ==
    /\ \A r \in Requests : pc[r] = "done" /\ released[r] = 1
    /\ \E r \in Requests : outcome[r] = "abort"
    /\ \E r \in Requests : outcome[r] = "transportError"
    /\ sem = 0

\* C18: a request has at most one observation, and the observation of a
\* request whose response arrived exists only once the response has been
\* copied to the client (buffered path) or the stream has ended or been
\* closed (streaming path).
C18_ObservedAfterDelivery ==
    \A r \in Requests :
        /\ Len(observations[r]) <= 1
        /\ (rb[r].kind = "buffer" /\ Len(observations[r]) > 0)
              => pc[r] # "copy"
        /\ (rb[r].kind = "stream" /\ Len(observations[r]) > 0)
              => (pc[r] # "copy" \/ rb[r].s.metricsRecorded)

\* C11: a request whose forward failed at the transport has been answered
\* 502 and has exactly one observation, with a 5xx status code, the status
\* tag "error" and a non-empty error message; once it has returned, its slot
\* is free again for later requests.
C11_TransportErrorReported ==
    \A r \in Requests :
        outcome[r] = "transportError" =>
            /\ clientStatus[r] = 502
            /\ Len(observations[r]) = 1
            /\ observations[r][1].statusCode \in 500 .. 599
            /\ observations[r][1].status = "error"
            /\ observations[r][1].errorMsg # ""
            /\ (pc[r] = "done" => released[r] = acquired[r])

\* C11 witness: one request has returned after a transport error, and the
\* slot it held is now held by a later request whose response is being copied
C11_Witness ==
    \E r1, r2 \in Requests :
        /\ outcome[r1] = "transportError" /\ pc[r1] = "done"
        /\ released[r1] = 1
        /\ pc[r2] = "copy" /\ HoldsSlot(r2)

(***************************************************************************)
(* The AnalyticsWriter on its own: producers calling Record, writerLoop,   *)
(* cleanupLoop and one call of Close.                                      *)
(***************************************************************************)
awOther == <<bodyVars, observations, reqVars, lifeVars, extVars>>

\* the record the next producer call passes to Record
ProducerRecord == [NoRecord EXCEPT !.req = recordCalls + 1, !.ts = clock]

\* some goroutine calls aw.Record(record)
AwRecordCall ==
    /\ recordCalls < MaxRecordCalls
    /\ aw' = Record(aw, ProducerRecord)
    /\ recordCalls' = recordCalls + 1
    /\ UNCHANGED <<writerPc, writerRec, cleanupPc, closePc, written,
                   lostWrites, awOther>>

AwWriterRecv == WriterRecv /\ UNCHANGED <<recordCalls, awOther>>

AwWriterWrite == WriterWrite /\ UNCHANGED <<recordCalls, awOther>>

AwWriterExit == WriterExit /\ UNCHANGED <<recordCalls, awOther>>

\* cleanupLoop, select case <-ticker.C
CleanupTick ==
    /\ cleanupPc = "select"
    /\ cleanupPc' = "sweep"
    /\ UNCHANGED <<aw, writerPc, writerRec, closePc, written, lostWrites,
                   recordCalls, awOther>>

\* cleanupLoop: the DELETE of rows older than the retention window; on a
\* closed handle Exec fails, the error is logged and the loop goes on
CleanupSweep ==
    /\ cleanupPc = "sweep"
    /\ cleanupPc' = "select"
    /\ written' = IF aw.db = "open" THEN Sweep(written, clock) ELSE written
    /\ UNCHANGED <<aw, writerPc, writerRec, closePc, lostWrites,
                   recordCalls, awOther>>

\* cleanupLoop: Exec returns an error on an open store (the database is
\* locked, the disk fails); the error is logged, no row is deleted
CleanupSweepFails ==
    /\ cleanupPc = "sweep"
    /\ aw.db = "open"
    /\ cleanupPc' = "logged"
    /\ UNCHANGED <<aw, writerPc, writerRec, closePc, written, lostWrites,
                   recordCalls, awOther>>

\* a mutant of CleanupContinue: the sweep task ends on a failed delete
CleanupFailFatal ==
    /\ cleanupPc = "logged"
    /\ cleanupPc' = "done"
    /\ aw' = [aw EXCEPT !.wg = @ - 1]
    /\ UNCHANGED <<writerPc, writerRec, closePc, written, lostWrites,
                   recordCalls, awOther>>

\* cleanupLoop: the continue after the logged error, back to the select
CleanupContinue ==
    /\ cleanupPc = "logged"
    /\ cleanupPc' = "select"
    /\ UNCHANGED <<aw, writerPc, writerRec, closePc, written, lostWrites,
                   recordCalls, awOther>>

\* cleanupLoop, select case <-aw.shutdown: return, then the deferred wg.Done
CleanupShutdown ==
    /\ cleanupPc = "select"
    /\ aw.shutdownClosed
    /\ cleanupPc' = "done"
    /\ aw' = [aw EXCEPT !.wg = @ - 1]
    /\ UNCHANGED <<writerPc, writerRec, closePc, written, lostWrites,
                   recordCalls, awOther>>

\* Close: close(aw.shutdown)
AwCloseShutdown ==
    /\ closePc = "idle"
    /\ aw' = [aw EXCEPT !.shutdownClosed = TRUE,
                        !.pendingAtClose = Len(aw.writeQueue)
                              + (IF writerPc = "write" THEN 1 ELSE 0)]
    /\ closePc' = "closeQueue"
    /\ UNCHANGED <<writerPc, writerRec, cleanupPc, written, lostWrites,
                   recordCalls, awOther>>

\* Close: close(aw.writeQueue)
AwCloseQueue ==
    /\ closePc = "closeQueue"
    /\ aw' = [aw EXCEPT !.queueClosed = TRUE]
    /\ closePc' = "wait"
    /\ UNCHANGED <<writerPc, writerRec, cleanupPc, written, lostWrites,
                   recordCalls, awOther>>

\* a mutant of AwCloseWait that does not wait for the two goroutines
AwCloseNoWait ==
    /\ closePc = "wait"
    /\ closePc' = "closeDb"
    /\ UNCHANGED <<aw, writerPc, writerRec, cleanupPc, written, lostWrites,
                   recordCalls, awOther>>

\* Close: aw.wg.Wait() returns when both goroutines have called Done
AwCloseWait ==
    /\ closePc = "wait"
    /\ aw.wg = 0
    /\ closePc' = "closeDb"
    /\ UNCHANGED <<aw, writerPc, writerRec, cleanupPc, written, lostWrites,
                   recordCalls, awOther>>

\* Close: if aw.db != nil { aw.db.Close() }
AwCloseDb ==
    /\ closePc = "closeDb"
    /\ aw' = [aw EXCEPT !.db = IF @ = "nil" THEN "nil" ELSE "closed"]
    /\ closePc' = "done"
    /\ UNCHANGED <<writerPc, writerRec, cleanupPc, written, lostWrites,
                   recordCalls, awOther>>

\* a day passes
ClockAdvance ==
    /\ clock < MaxClock
    /\ clock' = clock + 1
    /\ UNCHANGED <<bodyVars, observations, recordCalls, reqVars, lifeVars,
                   awVars, catVars, startVars, queryResp, parsed, twin>>

InitAnalytics ==
    /\ InitStream
    /\ InitExtIdle
    /\ observations = [r \in ReqIds |-> <<>>]
    /\ \E dbOk \in BOOLEAN :
          /\ aw = NewAnalyticsWriter(dbOk)
          /\ writerPc = IF dbOk THEN "recv" ELSE "none"
          /\ cleanupPc = IF dbOk THEN "select" ELSE "none"
    /\ writerRec = NoRecord
    /\ closePc = "idle"
    /\ written = EmptyBag
    /\ lostWrites = 0
    /\ recordCalls = 0
    /\ InitRequests
    /\ InitLifeIdle

NextAnalytics ==
    \/ AwRecordCall
    \/ AwWriterRecv
    \/ AwWriterWrite
    \/ AwWriterExit
    \/ CleanupTick
    \/ CleanupSweep
    \/ CleanupSweepFails
    \/ CleanupContinue
    \/ CleanupShutdown
    \/ AwCloseShutdown
    \/ AwCloseQueue
    \/ AwCloseWait
    \/ AwCloseDb
    \/ ClockAdvance

SpecAnalytics == InitAnalytics /\ [][NextAnalytics]_vars

\* a Record call on an open queue enqueues when the queue is not full and
\* otherwise drops the record and leaves the queue as it was
C9_RecordStep ==
    (recordCalls' = recordCalls + 1 /\ ~aw.queueClosed) =>
        IF Len(aw.writeQueue) < QueueCap
        THEN /\ aw'.writeQueue = Append(aw.writeQueue, ProducerRecord)
             /\ aw'.dropped = aw.dropped
        ELSE /\ aw'.writeQueue = aw.writeQueue
             /\ aw'.dropped = aw.dropped + 1

\* C9: Record never blocks (a producer that has a record can always take its
\* step), it enqueues below capacity and drops at capacity leaving the queue
\* unchanged, and the queue never holds more than QueueCap records.
C9_RecordNeverBlocks ==
    /\ [](Len(aw.writeQueue) <= QueueCap)
    /\ []((recordCalls < MaxRecordCalls) => ENABLED AwRecordCall)
    /\ [][C9_RecordStep]_vars

\* C9 witness: the queue is full and open, and a record has been dropped
C9_Witness ==
    /\ Len(aw.writeQueue) = QueueCap
    /\ ~aw.queueClosed
    /\ aw.dropped >= 1
    /\ aw.accepted >= QueueCap

\* C32: at any time the number of Record calls made equals the number of
\* records accepted into the queue plus the number of drops reported.
C32_CallsAcceptedOrCounted ==
    recordCalls = aw.accepted + aw.dropped

\* C10: with a store that was opened, the handle is closed only after the
\* writer and the sweep task have exited, the queue is empty by then, every
\* accepted record has been written, and no write ever meets a closed handle.
C10_CloseDrainsQueue ==
    /\ lostWrites = 0
    /\ aw.db = "closed" =>
          /\ writerPc = "done"
          /\ cleanupPc = "done"
          /\ aw.writeQueue = <<>>
          /\ BagCardinality(written) = aw.accepted

\* C10 witness: Close began with records still queued, and the handle is closed
C10_Witness ==
    /\ aw.db = "closed"
    /\ aw.pendingAtClose >= 2
    /\ BagCardinality(written) = aw.accepted

\* C24: the rows of the store are changed only by a step of the writer task
\* executing its write; no step of any other task, the retention sweep
\* included, changes them.
C24_OnlyWriterWrites ==
    [][written' # written => (writerPc = "write" /\ writerPc' = "recv")]_vars

\* C37: a delete that fails leaves the stored rows as they were; after it
\* the sweep task goes back to its select, where the next tick can be taken;
\* and the sweep task ends only from its select with the shutdown signal
\* raised.
C37_FailedSweepNotFatal ==
    /\ [](cleanupPc = "logged" => ENABLED CleanupContinue)
    /\ [](cleanupPc = "select" => ENABLED CleanupTick)
    /\ [][ /\ (cleanupPc = "sweep" /\ cleanupPc' = "logged")
                 => written' = written
           /\ cleanupPc = "logged" => cleanupPc' \in {"logged", "select"}
           /\ (cleanupPc # "done" /\ cleanupPc' = "done")
                 => (cleanupPc = "select" /\ aw.shutdownClosed)
       ]_vars

\* C37 witness: a delete has just failed on an open store that holds a row
\* older than the retention window.
C37_Witness ==
    /\ cleanupPc = "logged"
    /\ aw.db = "open"
    /\ \E x \in LiveRows(written) : x.rec.ts < clock - RetentionDays

lifeOther == <<bodyVars, observations, recordCalls, reqVars, extVars>>

\* OllamaProcess.Stop on handle h: a nil handle is left alone, the process is
\* killed and waited for; stopping a process that has exited changes nothing
StopProcess(ps, h) ==
    IF h = 0 THEN ps
    ELSE [ps EXCEPT ![h] = IF @ = "running" THEN "exited" ELSE @]

\* killExistingOllama: every backend process on the machine is killed
killExistingOllama(ps) ==
    [p \in DOMAIN ps |-> IF ps[p] = "running" THEN "exited" ELSE ps[p]]

\* the answers waitForOllama can give: never ready without a running process,
\* and a running process may or may not answer within the timeout
waitForOllama(ps) ==
    IF \E p \in DOMAIN ps : ps[p] = "running" THEN {TRUE, FALSE} ELSE {FALSE}

\* a mutant of maxFailures: two consecutive failures before a restart
maxFailuresTwo == 1 + 1

\* the threshold of monitorOllamaHealth
maxFailures == 1

\* the backend process dies on its own
BackendCrash ==
    /\ mainPc # "exited"
    /\ \E p \in DOMAIN procs :
          /\ procs[p] = "running"
          /\ procs' = [procs EXCEPT ![p] = "exited"]
    /\ UNCHANGED <<mode, mainPc, stopRequested, monPc, consecutiveFailures,
                   ticks, handle, started, shutdownStops, httpState, inflight,
                   lifeRequests, awVars, lifeOther>>

\* the HTTP server accepts a request
LifeRequestStart ==
    /\ mainPc # "exited"
    /\ httpState = "serving"
    /\ lifeRequests < MaxLifeRequests
    /\ inflight' = inflight + 1
    /\ lifeRequests' = lifeRequests + 1
    /\ UNCHANGED <<mode, mainPc, stopRequested, monPc, consecutiveFailures,
                   ticks, handle, procs, started, shutdownStops, httpState,
                   awVars, lifeOther>>

\* a request handler finishes: its one observation goes to analytics.Record
LifeRequestEnd ==
    /\ mainPc # "exited"
    /\ inflight > 0
    /\ inflight' = inflight - 1
    /\ aw' = Record(aw, [NoRecord EXCEPT !.req = lifeRequests])
    /\ UNCHANGED <<mode, mainPc, stopRequested, monPc, consecutiveFailures,
                   ticks, handle, procs, started, shutdownStops, httpState,
                   lifeRequests, writerPc, writerRec, cleanupPc, closePc,
                   written, lostWrites, lifeOther>>

\* Execute: a Stop or Shutdown control request arrives
SvcControlStop ==
    /\ mode = "service"
    /\ mainPc = "loop"
    /\ stopRequested' = TRUE
    /\ mainPc' = "stopOllama"
    /\ UNCHANGED <<mode, monPc, consecutiveFailures, ticks, handle, procs,
                   started, shutdownStops, httpState, inflight, lifeRequests,
                   awVars, lifeOther>>

\* Execute, case svc.Stop: "Stop Ollama process FIRST", s.ollamaProcess.Stop()
SvcStopOllama ==
    /\ mainPc = "stopOllama"
    /\ procs' = StopProcess(procs, handle)
    /\ shutdownStops' = IF handle # 0 THEN shutdownStops + 1 ELSE shutdownStops
    /\ mainPc' = "proxyShutdown"
    /\ UNCHANGED <<mode, stopRequested, monPc, consecutiveFailures, ticks,
                   handle, started, httpState, inflight, lifeRequests,
                   awVars, lifeOther>>

\* main: the interrupt signal arrives; the deferred calls start to run
ConsoleSignal ==
    /\ mode = "console"
    /\ mainPc = "waitSignal"
    /\ stopRequested' = TRUE
    /\ mainPc' = "proxyShutdown"
    /\ UNCHANGED <<mode, monPc, consecutiveFailures, ticks, handle, procs,
                   started, shutdownStops, httpState, inflight, lifeRequests,
                   awVars, lifeOther>>

\* Proxy.Shutdown: p.server.Shutdown(ctx) closes the listeners
ProxyShutdownBegin ==
    /\ mainPc = "proxyShutdown"
    /\ httpState' = "draining"
    /\ mainPc' = "httpWait"
    /\ UNCHANGED <<mode, stopRequested, monPc, consecutiveFailures, ticks,
                   handle, procs, started, shutdownStops, inflight,
                   lifeRequests, awVars, lifeOther>>

\* Proxy.Shutdown: every in-flight request has finished, Shutdown returns nil
ProxyShutdownDrained ==
    /\ mainPc = "httpWait"
    /\ inflight = 0
    /\ httpState' = "closed"
    /\ mainPc' = "closeAnalytics"
    /\ UNCHANGED <<mode, stopRequested, monPc, consecutiveFailures, ticks,
                   handle, procs, started, shutdownStops, inflight,
                   lifeRequests, awVars, lifeOther>>

\* Proxy.Shutdown: the 10 s context expires with requests still in flight
ProxyShutdownTimeout ==
    /\ mainPc = "httpWait"
    /\ inflight > 0
    /\ mainPc' = "closeAnalytics"
    /\ UNCHANGED <<mode, stopRequested, monPc, consecutiveFailures, ticks,
                   handle, procs, started, shutdownStops, httpState, inflight,
                   lifeRequests, awVars, lifeOther>>

\* Proxy.Shutdown: p.analytics.Close(), step by step
LifeCloseShutdown ==
    mainPc = "closeAnalytics" /\ AwCloseShutdown

LifeCloseQueue ==
    mainPc = "closeAnalytics" /\ AwCloseQueue

LifeCloseWait ==
    mainPc = "closeAnalytics" /\ AwCloseWait

LifeCloseDb ==
    mainPc = "closeAnalytics" /\ AwCloseDb

\* Proxy.Shutdown returns: Execute leaves its loop and returns, so its deferred
\* calls run; in main the next deferred call runs
ProxyShutdownReturn ==
    /\ mainPc = "closeAnalytics"
    /\ closePc = "done"
    /\ mainPc' = IF mode = "service" THEN "sendStop" ELSE "deferStop"
    /\ UNCHANGED <<mode, stopRequested, monPc, consecutiveFailures, ticks,
                   handle, procs, started, shutdownStops, httpState, inflight,
                   lifeRequests, awVars, lifeOther>>

\* Execute's deferred stopHealthCheck <- true meets the monitor's <-stop: the
\* channel is unbuffered, the send completes when the monitor is at its select
SvcSendStop ==
    /\ mainPc = "sendStop"
    /\ monPc = "select"
    /\ monPc' = "done"
    /\ mainPc' = "deferStop"
    /\ UNCHANGED <<mode, stopRequested, consecutiveFailures, ticks, handle,
                   procs, started, shutdownStops, httpState, inflight,
                   lifeRequests, awVars, lifeOther>>

\* a mutant of the deferred Stop that stops the handle start-up had stored
DeferStopFirstHandle ==
    /\ mainPc = "deferStop"
    /\ procs' = StopProcess(procs, 1)
    /\ shutdownStops' = IF handle # 0 THEN shutdownStops + 1 ELSE shutdownStops
    /\ mainPc' = "exited"
    /\ UNCHANGED <<mode, stopRequested, monPc, consecutiveFailures, ticks,
                   handle, started, httpState, inflight, lifeRequests,
                   awVars, lifeOther>>

\* the deferred Stop of the backend process (Execute and main), after which
\* the program ends
DeferStopOllama ==
    /\ mainPc = "deferStop"
    /\ procs' = StopProcess(procs, handle)
    /\ shutdownStops' = IF handle # 0 THEN shutdownStops + 1 ELSE shutdownStops
    /\ mainPc' = "exited"
    /\ UNCHANGED <<mode, stopRequested, monPc, consecutiveFailures, ticks,
                   handle, started, httpState, inflight, lifeRequests,
                   awVars, lifeOther>>

\* monitorOllamaHealth, select case <-ticker.C
MonTick ==
    /\ mainPc # "exited"
    /\ monPc = "select"
    /\ ticks < MaxTicks
    /\ ticks' = ticks + 1
    /\ monPc' = "probe"
    /\ UNCHANGED <<mode, mainPc, stopRequested, consecutiveFailures, handle,
                   procs, started, shutdownStops, httpState, inflight,
                   lifeRequests, awVars, lifeOther>>

\* monitorOllamaHealth: the 10 s liveness probe and the failure counter
MonProbe ==
    /\ mainPc # "exited"
    /\ monPc = "probe"
    /\ \E ok \in waitForOllama(procs) :
          IF ok
          THEN /\ consecutiveFailures' = 0
               /\ monPc' = "select"
          ELSE /\ consecutiveFailures' = consecutiveFailures + 1
               /\ monPc' = IF consecutiveFailures + 1 >= maxFailures
                           THEN "stopOld" ELSE "select"
    /\ UNCHANGED <<mode, mainPc, stopRequested, ticks, handle, procs, started,
                   shutdownStops, httpState, inflight, lifeRequests,
                   awVars, lifeOther>>

\* monitorOllamaHealth: "Stop old process", s.ollamaProcess.Stop()
MonStopOld ==
    /\ mainPc # "exited"
    /\ monPc = "stopOld"
    /\ procs' = StopProcess(procs, handle)
    /\ monPc' = "kill"
    /\ UNCHANGED <<mode, mainPc, stopRequested, consecutiveFailures, ticks,
                   handle, started, shutdownStops, httpState, inflight,
                   lifeRequests, awVars, lifeOther>>

\* monitorOllamaHealth: killExistingOllama()
MonKill ==
    /\ mainPc # "exited"
    /\ monPc = "kill"
    /\ procs' = killExistingOllama(procs)
    /\ monPc' = "start"
    /\ UNCHANGED <<mode, mainPc, stopRequested, consecutiveFailures, ticks,
                   handle, started, shutdownStops, httpState, inflight,
                   lifeRequests, awVars, lifeOther>>

\* monitorOllamaHealth: startOllama succeeds, the new handle is installed
MonStart ==
    /\ mainPc # "exited"
    /\ monPc = "start"
    /\ started < MaxProcs
    /\ procs' = [procs EXCEPT ![started + 1] = "running"]
    /\ started' = started + 1
    /\ handle' = started + 1
    /\ monPc' = "reprobe"
    /\ UNCHANGED <<mode, mainPc, stopRequested, consecutiveFailures, ticks,
                   shutdownStops, httpState, inflight, lifeRequests,
                   awVars, lifeOther>>

\* a mutant of MonStartFails: the monitor gives up after a failed start
MonStartFailsExit ==
    /\ mainPc # "exited"
    /\ monPc = "start"
    /\ monPc' = "done"
    /\ UNCHANGED <<mode, mainPc, stopRequested, consecutiveFailures, ticks,
                   handle, procs, started, shutdownStops, httpState, inflight,
                   lifeRequests, awVars, lifeOther>>

\* monitorOllamaHealth: startOllama fails, the error is logged
MonStartFails ==
    /\ mainPc # "exited"
    /\ monPc = "start"
    /\ monPc' = "select"
    /\ UNCHANGED <<mode, mainPc, stopRequested, consecutiveFailures, ticks,
                   handle, procs, started, shutdownStops, httpState, inflight,
                   lifeRequests, awVars, lifeOther>>

\* a mutant of MonReprobe: the monitor returns when the restarted backend
\* does not answer
MonReprobeGivesUp ==
    /\ mainPc # "exited"
    /\ monPc = "reprobe"
    /\ \E ok \in waitForOllama(procs) :
          /\ consecutiveFailures' = IF ok THEN 0 ELSE consecutiveFailures
          /\ monPc' = IF ok THEN "select" ELSE "done"
    /\ UNCHANGED <<mode, mainPc, stopRequested, ticks, handle, procs, started,
                   shutdownStops, httpState, inflight, lifeRequests,
                   awVars, lifeOther>>

\* monitorOllamaHealth: the 30 s probe of the restarted backend
MonReprobe ==
    /\ mainPc # "exited"
    /\ monPc = "reprobe"
    /\ \E ok \in waitForOllama(procs) :
          consecutiveFailures' = IF ok THEN 0 ELSE consecutiveFailures
    /\ monPc' = "select"
    /\ UNCHANGED <<mode, mainPc, stopRequested, ticks, handle, procs, started,
                   shutdownStops, httpState, inflight, lifeRequests,
                   awVars, lifeOther>>

LifeWriterRecv ==
    mainPc # "exited" /\ WriterRecv /\ UNCHANGED <<recordCalls, awOther>>

LifeWriterWrite ==
    mainPc # "exited" /\ WriterWrite /\ UNCHANGED <<recordCalls, awOther>>

LifeWriterExit ==
    mainPc # "exited" /\ WriterExit /\ UNCHANGED <<recordCalls, awOther>>

LifeCleanupTick == mainPc # "exited" /\ CleanupTick

LifeCleanupSweep == mainPc # "exited" /\ CleanupSweep

LifeCleanupSweepFails == mainPc # "exited" /\ CleanupSweepFails

LifeCleanupContinue == mainPc # "exited" /\ CleanupContinue

LifeCleanupShutdown == mainPc # "exited" /\ CleanupShutdown

InitLifecycle ==
    /\ InitStream
    /\ InitExtIdle
    /\ observations = [r \in ReqIds |-> <<>>]
    /\ aw = NewAnalyticsWriter(TRUE)
    /\ writerPc = "recv"
    /\ writerRec = NoRecord
    /\ cleanupPc = "select"
    /\ closePc = "idle"
    /\ written = EmptyBag
    /\ lostWrites = 0
    /\ recordCalls = 0
    /\ InitRequests
    /\ mode \in {"service", "console"}
    /\ mainPc = IF mode = "service" THEN "loop" ELSE "waitSignal"
    /\ stopRequested = FALSE
    /\ monPc = IF mode = "service" THEN "select" ELSE "none"
    /\ consecutiveFailures = 0
    /\ ticks = 0
    /\ handle = 1
    /\ procs = [p \in 1 .. MaxProcs |-> IF p = 1 THEN "running" ELSE "unstarted"]
    /\ started = 1
    /\ shutdownStops = 0
    /\ httpState = "serving"
    /\ inflight = 0
    /\ lifeRequests = 0

NextLifecycle ==
    \/ BackendCrash
    \/ LifeRequestStart
    \/ LifeRequestEnd
    \/ SvcControlStop
    \/ SvcStopOllama
    \/ ConsoleSignal
    \/ ProxyShutdownBegin
    \/ ProxyShutdownDrained
    \/ ProxyShutdownTimeout
    \/ LifeCloseShutdown
    \/ LifeCloseQueue
    \/ LifeCloseWait
    \/ LifeCloseDb
    \/ ProxyShutdownReturn
    \/ SvcSendStop
    \/ DeferStopOllama
    \/ MonTick
    \/ MonProbe
    \/ MonStopOld
    \/ MonKill
    \/ MonStart
    \/ MonStartFails
    \/ MonReprobe
    \/ LifeWriterRecv
    \/ LifeWriterWrite
    \/ LifeWriterExit
    \/ LifeCleanupTick
    \/ LifeCleanupSweep
    \/ LifeCleanupSweepFails
    \/ LifeCleanupContinue
    \/ LifeCleanupShutdown

SpecLifecycle == InitLifecycle /\ [][NextLifecycle]_vars

\* C34: once Execute has returned after a stop request, the monitor has
\* exited and no backend process is running, whichever handle was current.
C34_NoBackendAfterExecuteReturns ==
    (mode = "service" /\ mainPc = "exited") =>
        /\ monPc = "done"
        /\ \A p \in DOMAIN procs : procs[p] # "running"

\* C34 witness: Execute has returned after the monitor had installed a second
\* handle, and both the stop request and the deferred call ran Stop.
C34_Witness ==
    /\ mode = "service"
    /\ mainPc = "exited"
    /\ stopRequested
    /\ handle = 2
    /\ procs[2] = "exited"
    /\ shutdownStops = 2

\* Scheduling of the lifecycle: every goroutine that can take its next step
\* takes it (weak fairness); a select with several ready cases picks one at
\* random, so a case that is ready again and again is taken (strong fairness
\* for the monitor's <-stop and the sweep task's <-aw.shutdown).  Server
\* Shutdown returns when the requests have drained or its context expires.
LifecycleFairness ==
    /\ WF_vars(SvcStopOllama)
    /\ WF_vars(ProxyShutdownBegin)
    /\ WF_vars(ProxyShutdownDrained \/ ProxyShutdownTimeout)
    /\ WF_vars(LifeCloseShutdown)
    /\ WF_vars(LifeCloseQueue)
    /\ WF_vars(LifeCloseWait)
    /\ WF_vars(LifeCloseDb)
    /\ WF_vars(ProxyShutdownReturn)
    /\ SF_vars(SvcSendStop)
    /\ WF_vars(DeferStopOllama)
    /\ WF_vars(MonProbe)
    /\ WF_vars(MonStopOld)
    /\ WF_vars(MonKill)
    /\ WF_vars(MonStart \/ MonStartFails)
    /\ WF_vars(MonReprobe)
    /\ WF_vars(LifeWriterRecv)
    /\ WF_vars(LifeWriterWrite)
    /\ WF_vars(LifeWriterExit)
    /\ WF_vars(LifeCleanupSweep \/ LifeCleanupSweepFails)
    /\ WF_vars(LifeCleanupContinue)
    /\ SF_vars(LifeCleanupShutdown)

SpecLifecycleLive == SpecLifecycle /\ LifecycleFairness

\* C35: after a stop request the service terminates: Execute returns, with
\* the monitor, the writer and the sweep task all ended.
C35_StopTerminates ==
    (mode = "service" /\ stopRequested) ~>
        ( /\ mainPc = "exited"
          /\ monPc = "done"
          /\ writerPc = "done"
          /\ cleanupPc = "done" )

\* C35 witness: Execute is blocked in its deferred send of the stop signal
\* while the monitor is in the middle of a restart.
C35_Witness ==
    /\ mode = "service"
    /\ mainPc = "sendStop"
    /\ monPc \in {"stopOld", "kill", "start", "reprobe"}

\* C4: on a deliberate shutdown the supervisor is stopped before the HTTP
\* server stops serving, the backend process is stopped only after the HTTP
\* server has stopped accepting and has finished (or timed out) waiting for
\* in-flight requests, and the analytics store is closed only after the
\* backend process was stopped.
C4_ShutdownOrder ==
    /\ (httpState # "serving" => monPc \in {"none", "done"})
    /\ (shutdownStops > 0 =>
           /\ httpState # "serving"
           /\ mainPc \notin {"proxyShutdown", "httpWait"})
    /\ (closePc # "idle" => shutdownStops > 0)

\* C5: once a stop has been requested, the health monitor starts no new
\* backend process.
C5_NoRestartAfterStop ==
    [][stopRequested => started' = started]_vars

\* C25: Record is never executed on a writer whose queue has been closed (a
\* send on the closed queue panics), in particular not by a request still in
\* flight when the grace period of Shutdown has expired.
C25_NoRecordAfterClose ==
    aw.panics = 0

\* C26: the shutdown path reads and stops the handle only outside the
\* monitor's stop-and-replace, that is never between the monitor's Stop of
\* the old handle and its installing of the new one.
C26_HandleSectionsExclusive ==
    [][shutdownStops' > shutdownStops => monPc \notin {"kill", "start"}]_vars

\* a step of monitorOllamaHealth
MonStep == monPc' # monPc

C16_MonitorSurvivesFailedRestart ==
    /\ [][ MonStep =>
             /\ ((monPc = "start" /\ started' = started)
                   \/ (monPc = "reprobe" /\ consecutiveFailures' # 0))
                   => (monPc' = "select" /\ consecutiveFailures' >= maxFailures)
             /\ (monPc = "probe" /\ consecutiveFailures >= maxFailures
                   /\ consecutiveFailures' # 0)
                   => monPc' = "stopOld"
             /\ monPc' = "done" => (monPc = "select" /\ mainPc = "sendStop")
         ]_vars
    /\ []((monPc = "select" /\ ticks < MaxTicks /\ mainPc # "exited")
             => ENABLED MonTick)

\* C16 witness: a restart failed at an earlier tick, the next tick's probe
\* failed as well, and the restart it caused has started a new process
C16_Witness ==
    /\ consecutiveFailures = 2
    /\ monPc = "reprobe"
    /\ started = 2
    /\ ~stopRequested

(***************************************************************************)
(* PromptCategorizer.Categorize called concurrently.  The read of the      *)
(* count under RLock and the re-check and insertion under Lock are each    *)
(* one step; other callers may run between them.                           *)
(***************************************************************************)
CatCallers == 1 .. NumCallers

\* the prompts the callers pass
CatPrompts ==
    { EmptyPrompt, BlankPrompt, ReqPrompt,
      Prompt(<<"zeta", "one">>), Prompt(<<"Zeta", "two">>),
      Prompt(<<"alpha">>), Prompt(<<"beta">>) }

catOther == <<bodyVars, observations, awVars, recordCalls, reqVars, lifeVars,
              clock, startVars, queryResp, parsed, twin>>

\* the call of caller c returns label; count is the count it read, -1 if none
CatReturn(c, prompt, label, count) ==
    /\ catResults' = catResults \cup
                        {[prompt |-> prompt, label |-> label, count |-> count]}
    /\ catPc' = [catPc EXCEPT ![c] = "idle"]

\* Categorize from its entry to the first access to the category set: the
\* empty prompt, the pattern loop, strings.Fields
CatCall(c) ==
    \E prompt \in CatPrompts :
        /\ catPc[c] = "idle"
        /\ catCalls < MaxCatCalls
        /\ catCalls' = catCalls + 1
        /\ IF CategorizeFixed(prompt) # NoLabel
           THEN /\ CatReturn(c, prompt, CategorizeFixed(prompt), -1)
                /\ UNCHANGED catPrompt
           ELSE IF Len(prompt.words) = 0
           THEN /\ CatReturn(c, prompt, HashLabel(LowerWords(prompt.words)), -1)
                /\ UNCHANGED catPrompt
           ELSE /\ catPc' = [catPc EXCEPT ![c] = "rlock"]
                /\ catPrompt' = [catPrompt EXCEPT ![c] = prompt]
                /\ UNCHANGED catResults
        /\ UNCHANGED <<categories, catCount, catOther>>

\* Categorize: count := len(pc.categories) under RLock, then the test
\* count < MaxPromptCategories; at the cap the hash label is returned
CatReadCount(c) ==
    /\ catPc[c] = "rlock"
    /\ LET count == Cardinality(categories)
       IN  IF count < CatCap
           THEN /\ catPc' = [catPc EXCEPT ![c] = "lock"]
                /\ catCount' = [catCount EXCEPT ![c] = count]
                /\ UNCHANGED catResults
           ELSE /\ CatReturn(c, catPrompt[c],
                             HashLabel(LowerWords(catPrompt[c].words)), count)
                /\ UNCHANGED catCount
    /\ UNCHANGED <<categories, catPrompt, catCalls, catOther>>

\* a mutant of CatLockAdd that inserts without looking at the size again
CatLockAddUnchecked(c) ==
    /\ catPc[c] = "lock"
    /\ categories' = categories \cup {firstWord(catPrompt[c])}
    /\ CatReturn(c, catPrompt[c], DynamicLabel(firstWord(catPrompt[c])),
                 catCount[c])
    /\ UNCHANGED <<catPrompt, catCount, catCalls, catOther>>

\* Categorize under Lock: the size is checked again; below the cap the first
\* word is stored and returned, at the cap the hash label is returned
CatLockAdd(c) ==
    /\ catPc[c] = "lock"
    /\ IF Cardinality(categories) < CatCap
       THEN /\ categories' = categories \cup {firstWord(catPrompt[c])}
            /\ CatReturn(c, catPrompt[c],
                         DynamicLabel(firstWord(catPrompt[c])), catCount[c])
       ELSE /\ UNCHANGED categories
            /\ CatReturn(c, catPrompt[c],
                         HashLabel(LowerWords(catPrompt[c].words)), catCount[c])
    /\ UNCHANGED <<catPrompt, catCount, catCalls, catOther>>

InitCategorizer == InitBody

NextCategorizer ==
    \/ \E c \in CatCallers : CatCall(c)
    \/ \E c \in CatCallers : CatReadCount(c)
    \/ \E c \in CatCallers : CatLockAdd(c)

SpecCategorizer == InitCategorizer /\ [][NextCategorizer]_vars

\* prompts that match no fixed pattern and have a first word
DynamicEligible(prompt) ==
    /\ CategorizeFixed(prompt) = NoLabel
    /\ Len(prompt.words) > 0

\* the eligible prompts whose calls have returned
CatDone == { res.prompt : res \in { x \in catResults : DynamicEligible(x.prompt) } }

CatQuiescent == \A c \in CatCallers : catPc[c] = "idle"

CatMin(a, b) == IF a <= b THEN a ELSE b

\* C13 as stated: the dynamic categories never exceed the cap, an eligible
\* prompt gets a hash label only at the cap, and eligible prompts with
\* pairwise distinct first words create min(N, cap) categories.
C13_AsStated ==
    /\ Cardinality(categories) <= CatCap
    /\ \A res \in catResults :
          (DynamicEligible(res.prompt) /\ res.label.kind = "other")
              => Cardinality(categories) = CatCap
    /\ (CatQuiescent /\ \A p, q \in CatDone :
                            p # q => p.words[1] # q.words[1])
          => Cardinality(categories) = CatMin(Cardinality(CatDone), CatCap)

\* C13, amended: the dynamic categories never exceed the cap, an eligible
\* prompt gets a hash label only at the cap, and the eligible prompts create
\* min(M, cap) categories, M being the number of their distinct lower-cased
\* first words (M = N when the first words are pairwise distinct ignoring case).
C13_CategoriesBounded ==
    /\ Cardinality(categories) <= CatCap
    /\ \A res \in catResults :
          (DynamicEligible(res.prompt) /\ res.label.kind = "other")
              => Cardinality(categories) = CatCap
    /\ CatQuiescent
          => Cardinality(categories) =
                CatMin(Cardinality({ firstWord(p) : p \in CatDone }), CatCap)

\* C13 witness: the set is at its cap, a caller that had read a count below
\* the cap found the set full under Lock and got a hash label, for a first
\* word that is not a category
C13_Witness ==
    /\ Cardinality(categories) = CatCap
    /\ CatQuiescent
    /\ \E res \in catResults :
          /\ DynamicEligible(res.prompt)
          /\ res.label.kind = "other"
          /\ res.count \in 0 .. (CatCap - 1)
          /\ firstWord(res.prompt) \notin categories

\* C14: two Categorize calls with the same prompt return the same label,
\* whatever calls happen between them.
C14_Deterministic ==
    \A r1, r2 \in catResults :
        r1.prompt = r2.prompt => r1.label = r2.label

(***************************************************************************)
(* Start-up of the service (ollamaProxyService.Execute) and of the console *)
(* program (main), up to the point where the program serves.  startEnv is  *)
(* what start-up meets and finds: foreign says that another process, not a *)
(* backend, listens on the proxy port; inUseAtStart is foreign at the      *)
(* moment start-up began; probe is the answer of the readiness probe.      *)
(***************************************************************************)

startOther == <<bodyVars, observations, recordCalls, reqVars, awVars, clock,
                catVars, queryResp, parsed, twin, stopRequested, consecutiveFailures, ticks,
                shutdownStops, inflight, lifeRequests, mode>>

\* one step of start-up: the new position and what the step did; a position
\* "exited" is the end of the process with exit code 1
StartStep(pc2, env2, procs2, http2, mon2) ==
    /\ startPc' = pc2
    /\ startEnv' = env2
    /\ procs' = procs2
    /\ httpState' = http2
    /\ monPc' = mon2
    /\ exitCode' = IF pc2 = "exited" THEN 1 ELSE exitCode
    /\ mainPc' = CASE pc2 = "exited" -> "exited"
                   [] pc2 = "running" ->
                        (IF mode = "service" THEN "loop" ELSE "waitSignal")
                   [] OTHER -> mainPc
    /\ started' = Cardinality({p \in DOMAIN procs2 : procs2[p] # "unstarted"})
    /\ handle' = IF procs2[1] # "unstarted" THEN 1 ELSE 0
    /\ UNCHANGED startOther

\* another process starts or stops listening on the proxy port while
\* start-up is under way
ForeignListen ==
    /\ startPc \notin {"checkPorts", "exited", "running"}
    /\ StartStep(startPc, [startEnv EXCEPT !.foreign = ~@], procs, httpState,
                 monPc)

\* main: isPortOpen on the proxy port, log.Fatalf when it is open.  Execute
\* has no such check and goes on.
StartCheckPorts ==
    /\ startPc = "checkPorts"
    /\ StartStep(IF mode = "console" /\ startEnv.foreign
                    THEN "exited" ELSE "kill",
                 startEnv, procs, httpState, monPc)

\* findOllamaExecutable (taken to succeed) and killExistingOllama
StartKill ==
    /\ startPc = "kill"
    /\ StartStep("startOllama", startEnv, killExistingOllama(procs),
                 httpState, monPc)

\* startOllama: on success the handle is kept, on failure start-up ends
\* (return false, 1 in Execute, log.Fatalf in main)
StartOllama ==
    /\ startPc = "startOllama"
    /\ \E ok \in BOOLEAN :
          IF ok
          THEN StartStep("wait", startEnv, [procs EXCEPT ![1] = "running"],
                         httpState, monPc)
          ELSE StartStep("exited", startEnv, procs, httpState, monPc)

\* waitForOllama with the start-up timeout.  On failure Execute returns and
\* its deferred function stops the backend; main calls log.Fatal, which exits
\* without running the deferred Stop.
StartWait ==
    /\ startPc = "wait"
    /\ \E ok \in waitForOllama(procs) :
          IF ok
          THEN StartStep("newProxy", [startEnv EXCEPT !.probe = "passed"],
                         procs, httpState, monPc)
          ELSE StartStep("exited", [startEnv EXCEPT !.probe = "failed"],
                         IF mode = "service" THEN StopProcess(procs, handle)
                                             ELSE procs,
                         httpState, monPc)

\* NewProxy, go proxy.Start() and the sleep of two seconds: ListenAndServe
\* binds the port unless another process holds it, and then returns an error
\* that the goroutine only logs
StartProxy ==
    /\ startPc = "newProxy"
    /\ StartStep("verify", startEnv, procs,
                 IF startEnv.foreign THEN "bindFailed" ELSE "serving", monPc)

\* Execute: isPortOpen on the proxy port, which any listener answers; when it
\* is closed Execute returns false, 1, otherwise the state is Running and the
\* monitor is started.  main does not look at the port: it prints that the
\* proxy is ready and waits for a signal, without a monitor.
StartVerify ==
    /\ startPc = "verify"
    /\ IF mode = "service"
       THEN IF httpState = "serving" \/ startEnv.foreign
            THEN StartStep("running", startEnv, procs, httpState, "select")
            ELSE StartStep("exited", startEnv, StopProcess(procs, handle),
                           httpState, monPc)
       ELSE StartStep("running", startEnv, procs, httpState, monPc)

InitStartup ==
    /\ InitStream
    /\ InitRequests
    /\ observations = [r \in ReqIds |-> <<>>]
    /\ aw = NewAnalyticsWriter(TRUE)
    /\ writerPc = "recv"
    /\ writerRec = NoRecord
    /\ cleanupPc = "select"
    /\ closePc = "idle"
    /\ written = EmptyBag
    /\ lostWrites = 0
    /\ recordCalls = 0
    /\ clock = 0
    /\ categories = {}
    /\ catPc = [c \in 1 .. NumCallers |-> "idle"]
    /\ catPrompt = [c \in 1 .. NumCallers |-> EmptyPrompt]
    /\ catCount = [c \in 1 .. NumCallers |-> 0]
    /\ catCalls = 0
    /\ catResults = {}
    /\ mode \in {"service", "console"}
    /\ mainPc = "starting"
    /\ stopRequested = FALSE
    /\ monPc = "none"
    /\ consecutiveFailures = 0
    /\ ticks = 0
    /\ handle = 0
    /\ \E old \in SUBSET (2 .. MaxProcs) :
          procs = [p \in 1 .. MaxProcs |->
                      IF p \in old THEN "running" ELSE "unstarted"]
    /\ started = Cardinality({p \in 1 .. MaxProcs : procs[p] # "unstarted"})
    /\ shutdownStops = 0
    /\ httpState = "new"
    /\ inflight = 0
    /\ lifeRequests = 0
    /\ startPc = "checkPorts"
    /\ \E f \in BOOLEAN :
          startEnv = [foreign |-> f, inUseAtStart |-> f, probe |-> "none"]
    /\ exitCode = -1
    /\ queryResp = NoResponse
    /\ parsed = NoParse
    /\ twin = NoTwin

NextStartup ==
    \/ ForeignListen
    \/ StartCheckPorts
    \/ StartKill
    \/ StartOllama
    \/ StartWait
    \/ StartProxy
    \/ StartVerify

SpecStartup == InitStartup /\ [][NextStartup]_vars

\* C33: when start-up has ended in failure, in service mode and in console
\* mode, the backend process that start-up had started is not running.
C33_FailedStartupStopsBackend ==
    startPc = "exited" => procs[1] # "running"

\* C17: the listener is started only after the backend was started and passed
\* its readiness probe; the monitor is started only with the listener bound;
\* start-up completes only when the port was free, the backend was ready and
\* the listener is bound; and when the port was in use no later step is
\* performed: no backend is started, no listener and no monitor.
C17_StartupOrder ==
    /\ httpState # "new" => (procs[1] # "unstarted" /\ startEnv.probe = "passed")
    /\ monPc # "none" => httpState = "serving"
    /\ startPc = "running" =>
          /\ ~startEnv.inUseAtStart
          /\ startEnv.probe = "passed"
          /\ httpState = "serving"
    /\ startEnv.inUseAtStart =>
          /\ procs[1] = "unstarted"
          /\ httpState = "new"
          /\ monPc = "none"
    /\ startPc = "exited" => exitCode # 0

(***************************************************************************)
(* The analytics HTTP endpoints.  A query parameter is absent, a text that *)
(* is not a number ("abc"), or a number.  A prompt is matched word by      *)
(* word: one word of the model stands for one character of the text, "_"   *)
(* and "%" are the two characters SQL LIKE treats as wildcards.  Times are *)
(* instants on the model's clock.                                          *)
(***************************************************************************)
Absent == [kind |-> "absent", n |-> 0]

Text == [kind |-> "text", n |-> 0]

Num(k) == [kind |-> "num", n |-> k]

\* the parameter sets of the requests served: Search filters, and the hours
\* and id parameters of the two endpoints that have them
QueryParams ==
    [ model : {"", "phi4"},
      search : {<<>>, <<"summarize">>, <<"_">>},
      start_time : {Absent, Text, Num(1)},
      end_time : {Absent, Num(2)},
      limit : {Absent, Text, Num(0), Num(-1), Num(1), Num(2)},
      hours : {Absent},
      id : {Absent} ]
    \cup
    [ model : {""}, search : {<<>>}, start_time : {Absent},
      end_time : {Absent}, limit : {Absent},
      hours : {Absent, Text, Num(0), Num(48)},
      id : {Absent, Text, Num(1), Num(9)} ]

\* the paths registered by Proxy.Start under /analytics
AnalyticsEndpoints ==
    {"stats", "stats/enhanced", "messages", "messages/detail", "models",
     "search", "export"}

\* strconv.Atoi / ParseInt followed by the test "err == nil && parsed > 0":
\* the parsed value, or the default
PositiveOr(v, default) ==
    IF v.kind = "num" /\ v.n > 0 THEN v.n ELSE default

RECURSIVE Like(_, _)
\* SQLite's "text LIKE pat": % matches any run of characters, _ any one
\* character, every other character matches itself without regard to case
Like(text, pat) ==
    IF pat = <<>> THEN text = <<>>
    ELSE IF Head(pat) = "%"
         THEN \E k \in 0 .. Len(text) :
                 Like(SubSeq(text, k + 1, Len(text)), Tail(pat))
         ELSE /\ text # <<>>
              /\ Head(pat) = "_" \/ ToLower(Head(pat)) = ToLower(Head(text))
              /\ Like(Tail(text), Tail(pat))

\* AnalyticsWriter.Search: the rows selected by the WHERE clause built from
\* the parameters, ORDER BY timestamp DESC LIMIT limit
SearchParams(a, w, params) ==
    IF a.db # "open" THEN [err |-> TRUE, results |-> <<>>]
    ELSE
    LET sel == { x \in LiveRows(w) :
                   /\ params.model # "" => x.rec.model = params.model
                   /\ params.search # <<>> =>
                         Like(x.rec.prompt.words,
                              <<"%">> \o params.search \o <<"%">>)
                   /\ params.start_time.kind = "num" =>
                         x.rec.ts >= params.start_time.n
                   /\ params.end_time.kind = "num" =>
                         x.rec.ts <= params.end_time.n }
        limit == PositiveOr(params.limit, SearchLimit)
        n == IF Cardinality(sel) < limit THEN Cardinality(sel) ELSE limit
    IN  [ err |-> FALSE,
          results |-> [i \in 1 .. n |->
              (CHOOSE x \in sel :
                  Cardinality({y \in sel : y.rec.ts > x.rec.ts}) = i - 1).rec] ]

\* the response of an analytics endpoint
Response(e, params, status, results, total, lists) ==
    [ endpoint |-> e, params |-> params, status |-> status,
      results |-> results, total |-> total, lists |-> lists ]

\* handleAnalyticsStatsEnhanced: the aggregates over the rows of the last
\* hours (one day of the clock is 24 hours).  Over no rows COUNT(*) is 0 and
\* AVG and SUM are NULL, which Scan cannot store in a float64: Scan returns
\* an error and the handler answers 500.
handleAnalyticsStatsEnhanced(params, a, w, now) ==
    LET e == "stats/enhanced"
        hours == PositiveOr(params.hours, 24)
        rows == { x \in LiveRows(w) : x.rec.ts >= now - (hours \div 24) }
    IN  IF a.db = "nil" THEN Response(e, params, 503, <<>>, 0, {})
        ELSE IF a.db = "closed" \/ rows = {}
             THEN Response(e, params, 500, <<>>, 0, {})
             ELSE Response(e, params, 200, <<>>, Cardinality(rows),
                           { x.rec.model : x \in rows })

\* the handlers registered by Proxy.Start
ServeAnalytics(e, params, a, w, now) ==
    LET found == SearchParams(a, w, params)
        byId == { x \in LiveRows(w) : x.rec.req = params.id.n }
    IN  CASE e = "stats" ->
               Response(e, params, 200, <<>>,
                        IF a.db = "open" THEN Cardinality(LiveRows(w)) ELSE 0,
                        {})
          [] e = "stats/enhanced" ->
               handleAnalyticsStatsEnhanced(params, a, w, now)
          [] e \in {"messages", "search", "export"} ->
               IF found.err THEN Response(e, params, 400, <<>>, 0, {})
               ELSE Response(e, params, 200, found.results,
                             Len(found.results), {})
          [] e = "models" ->
               IF a.db = "nil" THEN Response(e, params, 200, <<>>, 0, {})
               ELSE IF a.db = "closed"
                    THEN Response(e, params, 500, <<>>, 0, {})
                    ELSE Response(e, params, 200, <<>>, 0,
                                  { x.rec.model : x \in LiveRows(w) } \ {""})
          [] e = "messages/detail" ->
               IF params.id.kind # "num"
               THEN Response(e, params, 400, <<>>, 0, {})
               ELSE IF a.db # "open" \/ byId = {}
                    THEN Response(e, params, 404, <<>>, 0, {})
                    ELSE Response(e, params, 200,
                                  <<(CHOOSE x \in byId : TRUE).rec>>, 1, {})

\* a client requests one of the analytics endpoints; a request leaves the
\* store as it is, so one request per run shows every response
AnalyticsRequest ==
    /\ queryResp = NoResponse
    /\ \E e \in AnalyticsEndpoints, params \in QueryParams :
          queryResp' = ServeAnalytics(e, params, aw, written, clock)
    /\ UNCHANGED <<bodyVars, observations, recordCalls, reqVars, lifeVars,
                   awVars, clock, catVars, startVars, parsed, twin>>

\* the records the store of the query model is filled from
StoreRecords ==
    { [NoRecord EXCEPT !.req = 1, !.ts = 0, !.model = "phi4",
                       !.prompt = Prompt(<<"Summarize", "this">>)],
      [NoRecord EXCEPT !.req = 2, !.ts = 1, !.model = "llama3",
                       !.prompt = Prompt(<<"zeta", "this">>)],
      [NoRecord EXCEPT !.req = 3, !.ts = 2, !.model = "phi4",
                       !.prompt = Prompt(<<"this", "summarize", "zeta">>)],
      [NoRecord EXCEPT !.req = 4, !.ts = 3, !.model = "phi4",
                       !.prompt = Prompt(<<"zeta">>)] }

\* a proxy whose store could or could not be opened, holding rows written
\* earlier
InitQuery ==
    /\ InitStream
    /\ InitRequests
    /\ InitLifeIdle
    /\ observations = [r \in ReqIds |-> <<>>]
    /\ \E dbOk \in BOOLEAN :
          /\ aw = NewAnalyticsWriter(dbOk)
          /\ writerPc = IF dbOk THEN "recv" ELSE "none"
          /\ cleanupPc = IF dbOk THEN "select" ELSE "none"
          /\ \E recs \in SUBSET StoreRecords :
                /\ ~dbOk => recs = {}
                /\ written = SetToBag({ Row(r) : r \in recs })
    /\ writerRec = NoRecord
    /\ closePc = "idle"
    /\ lostWrites = 0
    /\ recordCalls = 0
    /\ clock \in {3, 5}
    /\ categories = {}
    /\ catPc = [c \in 1 .. NumCallers |-> "idle"]
    /\ catPrompt = [c \in 1 .. NumCallers |-> EmptyPrompt]
    /\ catCount = [c \in 1 .. NumCallers |-> 0]
    /\ catCalls = 0
    /\ catResults = {}
    /\ startPc = "running"
    /\ startEnv = [foreign |-> FALSE, inUseAtStart |-> FALSE,
                   probe |-> "passed"]
    /\ exitCode = -1
    /\ queryResp = NoResponse
    /\ parsed = NoParse
    /\ twin = NoTwin

NextQuery == AnalyticsRequest

SpecQuery == InitQuery /\ [][NextQuery]_vars

\* C21: the enhanced-stats endpoint, asked on an open store for a window
\* that holds no record, answers 200 with total_requests 0 and empty lists.
C21_EmptyWindowIsNotAnError ==
    (/\ queryResp.endpoint = "stats/enhanced"
     /\ aw.db = "open"
     /\ \A x \in LiveRows(written) :
           x.rec.ts < clock - (PositiveOr(queryResp.params.hours, 24) \div 24))
    => /\ queryResp.status = 200
       /\ queryResp.total = 0
       /\ queryResp.lists = {}

\* C22: when the store could not be opened, every analytics query endpoint
\* answers 503 Service Unavailable.
C22_DisabledAnswersUnavailable ==
    (aw.db = "nil" /\ queryResp.endpoint # "none") => queryResp.status = 503

\* C23: Search on an open store returns exactly the stored records that have
\* the given model, whose prompt contains the search text (letter case
\* aside) and whose timestamp lies within [start_time, end_time], newest
\* first, cut to the limit: the caller's value when it is a positive number,
\* 100 otherwise.
C23_SearchReturnsMatching ==
    (queryResp.endpoint = "search" /\ aw.db = "open") =>
        LET p == queryResp.params
            res == queryResp.results
            Contains(text, s) ==
                \E k \in 0 .. Len(text) - Len(s) :
                    \A i \in 1 .. Len(s) : ToLower(text[k + i]) = ToLower(s[i])
            match == { x \in LiveRows(written) :
                         /\ p.model # "" => x.rec.model = p.model
                         /\ p.search # <<>> =>
                               Contains(x.rec.prompt.words, p.search)
                         /\ p.start_time.kind = "num" =>
                               x.rec.ts >= p.start_time.n
                         /\ p.end_time.kind = "num" =>
                               x.rec.ts <= p.end_time.n }
            lim == IF p.limit.kind = "num" /\ p.limit.n > 0
                   THEN p.limit.n ELSE 100
        IN  /\ queryResp.status = 200
            /\ Len(res) = (IF Cardinality(match) < lim
                           THEN Cardinality(match) ELSE lim)
            /\ \A i \in 1 .. Len(res) : Row(res[i]) \in match
            /\ \A i, j \in 1 .. Len(res) : i < j => res[i].ts > res[j].ts
            /\ \A x \in match :
                  (\A i \in 1 .. Len(res) : res[i] # x.rec) =>
                      \A i \in 1 .. Len(res) : res[i].ts > x.rec.ts

(***************************************************************************)
(* Proxy.parseRequest and the part of handleProxy that reads the request   *)
(* body.  A JSON value is a record with its type t; a string carries its   *)
(* text s, an array its items, an object of a messages array its content   *)
(* field.  A body is empty, a text that is not JSON, a JSON array, or a    *)
(* JSON object with its model, prompt and messages fields.                 *)
(***************************************************************************)
JAbsent == [t |-> "absent"]

JNumber == [t |-> "number"]

JString(s) == [t |-> "string", s |-> s]

JMessage(content) == [t |-> "object", content |-> content]

JArray(items) == [t |-> "array", items |-> items]

RequestBodies ==
    { [kind |-> "empty"], [kind |-> "text"], [kind |-> "array"] }
      \cup
    { [kind |-> "object", model |-> m, prompt |-> q, messages |-> ms] :
        m  \in { JAbsent, JNumber, JString("phi4"), JString("") },
        q  \in { JAbsent, JNumber, JString("hello"), JString("") },
        ms \in { JAbsent, JNumber, JArray(<<>>),
                 JArray(<<JMessage(JString("first")),
                          JMessage(JString("last"))>>),
                 JArray(<<JMessage(JString("first")), JMessage(JNumber)>>),
                 JArray(<<JMessage(JString("first")), JString("last")>>),
                 JArray(<<JMessage(JString("first")), JMessage(JAbsent)>>) } }

\* r.URL.Path as its segments: /api/generate, /api/chat, /api, /,
\* /v1/chat/completions, /api/api/tags
RequestPaths ==
    { <<"api", "generate">>, <<"api", "chat">>, <<"api">>, <<>>,
      <<"v1", "chat", "completions">>, <<"api", "api", "tags">> }

RequestMethods == { "GET", "POST", "PUT", "PATCH", "DELETE" }

\* a mutant of parseRequest that reads the first entry of messages
parseRequestFirstMessage(path, body) ==
    LET obj == body.kind = "object"
        msgs == obj /\ body.prompt.t # "string" /\ body.messages.t = "array"
                    /\ Len(body.messages.items) > 0
        first == body.messages.items[1]
    IN  [ model    |-> IF obj /\ body.model.t = "string"
                       THEN body.model.s ELSE "unknown",
          prompt   |-> IF obj /\ body.prompt.t = "string" THEN body.prompt.s
                       ELSE IF msgs /\ first.t = "object"
                                 /\ first.content.t = "string"
                            THEN first.content.s
                            ELSE "",
          endpoint |-> IF Len(path) > 1 /\ path[1] = "api"
                       THEN Tail(path) ELSE path ]

\* Proxy.parseRequest: body is nil when handleProxy did not read one
parseRequest(path, body) ==
    LET obj == body.kind = "object"
        msgs == obj /\ body.prompt.t # "string" /\ body.messages.t = "array"
                    /\ Len(body.messages.items) > 0
        lastMsg == body.messages.items[Len(body.messages.items)]
    IN  [ model    |-> IF obj /\ body.model.t = "string"
                       THEN body.model.s ELSE "unknown",
          prompt   |-> IF obj /\ body.prompt.t = "string" THEN body.prompt.s
                       ELSE IF msgs /\ lastMsg.t = "object"
                                 /\ lastMsg.content.t = "string"
                            THEN lastMsg.content.s
                            ELSE "",
          endpoint |-> IF Len(path) > 1 /\ path[1] = "api"
                       THEN Tail(path) ELSE path ]

\* handleProxy up to the forward: the body is read and replaced by a reader
\* over the bytes read for POST, PUT and PATCH only; parseRequest gets the
\* bytes read, nil for the other methods; the request is then forwarded
handleProxyParse(method, path, body) ==
    LET read == method \in {"POST", "PUT", "PATCH"}
        got == IF read THEN body ELSE [kind |-> "empty"]
    IN  [ method    |-> method,
          path      |-> path,
          body      |-> body,
          ctx       |-> parseRequest(path, got),
          forwarded |-> TRUE,
          sentBody  |-> IF read THEN got ELSE body ]

\* a request arrives at handleProxy
ParseRequestStep ==
    /\ parsed = NoParse
    /\ \E method \in RequestMethods, path \in RequestPaths,
          body \in RequestBodies :
          parsed' = handleProxyParse(method, path, body)
    /\ UNCHANGED <<bodyVars, observations, recordCalls, reqVars, lifeVars,
                   awVars, clock, catVars, startVars, queryResp, twin>>

InitParse == InitBody

NextParse == ParseRequestStep

SpecParse == InitParse /\ [][NextParse]_vars

ClientIdentities ==
    { [remote |-> "10.0.0.1:5000", xff |-> "", ua |-> "curl"],
      [remote |-> "10.0.0.2:6000", xff |-> "", ua |-> "python"],
      [remote |-> "10.0.0.1:5000", xff |-> "203.0.113.9", ua |-> "curl"] }

\* handleProxy: clientIP, r.RemoteAddr or X-Forwarded-For (via RemoteAddr)
ClientIP(id) ==
    IF id.xff # "" THEN id.xff \o " (via " \o id.remote \o ")" ELSE id.remote

\* what parseRequest and Categorize give for the requests of the two runs
TwinRequests ==
    { [Model |-> "phi4", Endpoint |-> "generate",
       PromptCategory |-> "summarize"],
      [Model |-> "unknown", Endpoint |-> "tags", PromptCategory |-> "other"] }

\* the ProxyContext handleProxy builds for a request of a client
TwinContext(req, id) ==
    [ Model |-> req.Model, Endpoint |-> req.Endpoint,
      PromptCategory |-> req.PromptCategory,
      ClientIP |-> ClientIP(id), UserAgent |-> id.ua ]

\* the observations recordMetrics is called with
TwinObservations ==
    { BufferedObservation(200), BufferedObservation(500), ErrorObservation,
      [BufferedObservation(200) EXCEPT !.tokens = DoneTokens],
      [BufferedObservation(200) EXCEPT !.tokens = DoneTokens, !.tps = 1] }

\* a variant of MetricUpdates that labels the request counter with the client
MetricUpdatesWithClient(ctx, o) ==
    <<[name   |-> "ollama_request_duration_seconds",
       labels |-> <<ctx.Model, ctx.Endpoint, ctx.PromptCategory>>],
      [name   |-> "ollama_requests_total",
       labels |-> <<ctx.Model, ctx.Endpoint, ctx.PromptCategory,
                    StatusTag(o.statusCode, o.errorMsg), ctx.ClientIP>>]>>

\* recordMetrics: the series of the registry it updates, in its order
MetricUpdates(ctx, o) ==
    <<[name   |-> "ollama_request_duration_seconds",
       labels |-> <<ctx.Model, ctx.Endpoint, ctx.PromptCategory>>],
      [name   |-> "ollama_requests_total",
       labels |-> <<ctx.Model, ctx.Endpoint, ctx.PromptCategory,
                    StatusTag(o.statusCode, o.errorMsg)>>]>>
    \o (IF o.tokens > 0
        THEN <<[name   |-> "ollama_tokens_generated",
                labels |-> <<ctx.Model, ctx.PromptCategory>>]>>
             \o (IF o.tps > 0
                 THEN <<[name   |-> "ollama_tokens_per_second",
                         labels |-> <<ctx.Model, ctx.PromptCategory>>]>>
                 ELSE <<>>)
        ELSE <<>>)

\* recordMetrics: the AnalyticsRecord it hands to Record
TwinRow(ctx, o) ==
    [ model |-> ctx.Model, endpoint |-> ctx.Endpoint,
      category |-> ctx.PromptCategory, statusCode |-> o.statusCode,
      status |-> StatusTag(o.statusCode, o.errorMsg),
      tokens |-> o.tokens, clientIP |-> ctx.ClientIP,
      userAgent |-> ctx.UserAgent ]

\* one call of recordMetrics in a run
TwinRecord(run, ctx, o) ==
    [ series |-> run.series \o MetricUpdates(ctx, o),
      rows   |-> Append(run.rows, TwinRow(ctx, o)) ]

\* the same request with the same outcome is processed in both runs, sent
\* by one client in the first and by another in the second
TwinObserve ==
    /\ Len(twin.a.rows) < MaxTwinRequests
    /\ \E req \in TwinRequests, o \in TwinObservations,
          ida \in ClientIdentities, idb \in ClientIdentities :
          twin' = [a |-> TwinRecord(twin.a, TwinContext(req, ida), o),
                   b |-> TwinRecord(twin.b, TwinContext(req, idb), o)]
    /\ UNCHANGED <<bodyVars, observations, recordCalls, reqVars, lifeVars,
                   awVars, clock, catVars, startVars, queryResp, parsed>>

InitMetrics == InitBody

NextMetrics == TwinObserve

SpecMetrics == InitMetrics /\ [][NextMetrics]_vars

\* C40: two runs that process the same requests and responses and differ
\* only in the clients update the same series with the same label values;
\* the labels are model, endpoint and prompt category (with the status on
\* the request counter) and no label value is a client address or a user
\* agent; the analytics rows of the two runs agree in everything but the
\* client fields, which hold the address of the client of each run.
C40_MetricsIgnoreClient ==
    /\ twin.a.series = twin.b.series
    /\ \A run \in {twin.a, twin.b} :
          \A i \in 1 .. Len(run.series) :
              /\ \A k \in 1 .. Len(run.series[i].labels) :
                    \A id \in ClientIdentities :
                        /\ run.series[i].labels[k] # ClientIP(id)
                        /\ run.series[i].labels[k] # id.remote
                        /\ run.series[i].labels[k] # id.xff
                        /\ run.series[i].labels[k] # id.ua
              /\ Len(run.series[i].labels) =
                    (IF run.series[i].name = "ollama_requests_total" THEN 4
                     ELSE IF run.series[i].name
                               = "ollama_request_duration_seconds"
                          THEN 3 ELSE 2)
    /\ Len(twin.a.rows) = Len(twin.b.rows)
    /\ \A i \in 1 .. Len(twin.a.rows) :
          /\ [twin.a.rows[i] EXCEPT !.clientIP = "", !.userAgent = ""]
               = [twin.b.rows[i] EXCEPT !.clientIP = "", !.userAgent = ""]
          /\ \E id \in ClientIdentities :
                twin.a.rows[i].clientIP = ClientIP(id)

\* C40 witness: two requests were processed in both runs, sent by clients
\* with different addresses and user agents, one of them through a
\* forwarding proxy, and tokens were observed.
C40_Witness ==
    /\ Len(twin.a.rows) = 2
    /\ twin.a.rows[1].clientIP # twin.b.rows[1].clientIP
    /\ twin.a.rows[1].userAgent # twin.b.rows[1].userAgent
    /\ twin.a.rows[2].clientIP = "203.0.113.9 (via 10.0.0.1:5000)"
    /\ twin.a.rows[2].tokens > 0
    /\ Len(twin.a.series) >= 5

====
